---------------------------- MODULE Spec2Model ----------------------------
(***************************************************************************)
(* coroTracer: the lock-free shared-memory telemetry pipeline.             *)
(*                                                                         *)
(* The harvester (engine/engine.go, structure/station.go and the           *)
(* StationWriter) and the reference probe (the C++ SDK header, PromiseMixin *)
(* and InitTracer) are modelled as processes that interleave at the level  *)
(* of single loads and stores on the shared region.                        *)
(*                                                                         *)
(* Values of the non-seq slot fields (addr, tid, timestamp, is_active) are *)
(* represented by the number of the publication that stored them, so that  *)
(* a record can be compared with the publication whose seq it reports.     *)
(***************************************************************************)
EXTENDS Integers, Naturals, Sequences, FiniteSets, TLC

\* ------------------------------------------------------------------ bounds
MaxN == 2            \* largest station capacity (-n) the engine is started with
MaxCoros == 2        \* coroutines created by the traced process
MaxEvents == 2       \* events the traced process traces in a run that starts fresh
RingEvents == 1      \* events traced after a full ring has been published
MaxAcceptErrs == 2   \* Accept errors that are followed before the model stops counting
MaxCloseCalls == 2   \* calls of Close (the signal goroutine's, the deferred one)
MaxLayoutStations == 16 \* stations whose slot addresses are computed
MaxDigits == 3       \* decimal digits of the numbers that are serialized
MaxLines == 3        \* lines of the trace file the analyzer is run on
WrapEvents == 10     \* events one coroutine traces to go round the ring
FootprintEvents == 1 \* events traced in the runs with a reconnect and a full region

\* ------------------------------------------------------- program constants
NumSlots == 8        \* Slots [8]Epoch
WakeBufSize == 1024  \* wakeBuf := make([]byte, 1024)
MaxStations == 10000 \* const MaxStations of the other engine.go
HeaderSize == 1024   \* const HeaderSize
StationSize == 1024  \* const StationSize
MagicHi == 1129271887 \* header.MagicNum = 0x434F524F54524352: the high word 0x434F524F
MagicLo == 1414677330 \* ... and the low word 0x54524352
MagicNum == <<MagicHi, MagicLo>>
NoMagic == <<0, 0>>

Coros == 1..MaxCoros
SlotIdx == 0..(NumSlots - 1)
NoStation == -1      \* my_station = nullptr
OneSecondNs == 1000000000 \* const OneSecondNs = 1_000_000_000

VARIABLES
    \* ---- shared region (GlobalHeader and the station array)
    maxStations,     \* header.MaxStations = e.maxStations = stationCount
    allocated,       \* header.AllocatedCount
    sleeping,        \* header.TracerSleeping
    slots,           \* stations[s].Slots[j] : [seq, addr, tid, ts, act]
    stHdr,           \* stations[s].Header   : [pid, dead]
    mapped,          \* the engine's mapping of the region (e.mmapData)
    \* ---- engine (TracerEngine, one Run goroutine)
    engPc,           \* position of the Run goroutine
    phase,           \* "first": the scan of Running; "recheck": the double-check
    scanAlloc,       \* doScan: allocated (after the clamp)
    si, sj,          \* doScan: i ; Harvest: i
    cur,             \* Harvest: currentSeq
    rec,             \* MarshalSlotJSONL: the fields copied so far
    harvested,       \* doScan: totalHarvested
    lastSeen,        \* e.lastSeen
    window,          \* publications that landed between a scan that found nothing
                     \* and the start of the double-check (history)
    \* ---- StationWriter
    wbuf,            \* bufio.Writer: records buffered
    logFile,         \* records in the log file
    writerOpen,      \* sw.file is open
    werr,            \* bufio.Writer: the error of a failed write, kept for good
    diskFail,        \* writes to the log file fail at present (the environment)
    \* ---- wakeup channel
    listener,        \* "open" | "closed"
    backlog,         \* connections waiting in the listen queue
    conn,            \* "none" | "open": the accepted connection
    sockBytes,       \* wake bytes written by the probe and not yet read
    peerClosed,      \* the probe's end of the socket is closed
    acceptErrs,      \* Accept errors printed so far (history, capped)
    atDisconnect,    \* when Run closed the last connection: the slots with
                     \* seq > last_seen and the length of the log (history)
    \* ---- probe process
    probePc,         \* "start" | "attached" | "exited"
    udsFd,           \* g_uds_fd: "unset" | "open" | "failed" | "closed"
    cpc,             \* position of each coroutine
    myStation,       \* PromiseMixin.my_station (a station index or NoStation)
    ctorIdx,         \* PromiseMixin(): idx returned by the fetch_add (history)
    curSeq,          \* PromiseMixin.current_seq
    flagSeen,        \* the value write_trace loaded from tracer_sleeping
    evLeft,          \* events the traced process may still trace
    \* ---- main goroutine / signal handler
    mainPc,          \* the step of NewTracerEngine | "running" | the step of Close |
                     \* "closed" | "exited"
    stationCount,    \* NewTracerEngine: stationCount (-n)
    shmFile,         \* the shared file's descriptor: "none" | "open" | "closed"
    shmSize,         \* size of the shared file in bytes
    magicNum,        \* header.MagicNum
    version,         \* header.Version
    layout,          \* a slot's byte offset in the region, as the engine and as
                     \* the probe compute it: [i, j, engine, probe]
    jsonl,           \* sw.line: the bytes MarshalSlotJSONL returned, with the
                     \* values it was given (history)
    dive,            \* RunDeepDive: [pc, trace, coroMap, globalMaxTS, LostWakeups];
                     \* trace is the lines read so far (history)
    closeCalls,      \* calls of Close begun so far
    staleOps         \* operations Close performed on a resource that was already
                     \* released (history)

regionVars == <<maxStations, allocated, sleeping, slots, stHdr, mapped>>
scanVars == <<phase, scanAlloc, si, sj, cur, rec, harvested, lastSeen, window>>
writerVars == <<wbuf, logFile, writerOpen, werr, diskFail>>
sockVars == <<listener, backlog, conn, sockBytes, peerClosed, acceptErrs, atDisconnect>>
coroVars == <<cpc, myStation, ctorIdx, curSeq, flagSeen, evLeft>>
probeVars == <<probePc, udsFd>>
bootVars == <<stationCount, shmSize, magicNum, version, layout, jsonl, dive>>
mainVars == <<mainPc, closeCalls, staleOps, shmFile, bootVars>>
vars == <<regionVars, engPc, scanVars, writerVars, sockVars, coroVars, probeVars, mainVars>>

Min(a, b) == IF a < b THEN a ELSE b

Stations == 0..(maxStations - 1)

\* A uint32 word (allocated_count, max_stations) is held as the integer with the
\* same 32 bits in two's complement: the values below 2^31 are themselves and a
\* value v from 2^31 up is v - 2^32, so that 0xFFFFFFFF is -1.
MaxInt32 == 2147483647
Top32 == -1

\* a < b between two such words, as the unsigned comparison of the code.
U32Lt(a, b) == IF (a < 0) = (b < 0) THEN a < b ELSE b < 0

\* The coroutine of an earlier promise object, destroyed since.
GoneCoro == MaxCoros + 1

EmptyEpoch == [seq |-> 0, addr |-> 0, tid |-> 0, ts |-> 0, act |-> 0]
EmptyRec == [pid |-> 0, tid |-> 0, addr |-> 0, act |-> 0]
NoDisconnect == [pend |-> {}, len |-> 0]
NoLayout == [i |-> -1, j |-> -1, engine |-> 0, probe |-> 0]
NoLine == [in |-> <<>>, out |-> <<>>]

\* coroMap has no entry for the probe_id.
NoCoro == [exists |-> FALSE, LastTS |-> 0, LastActive |-> FALSE, LastAddr |-> <<>>]

\* RunDeepDive before the first line: coroMap empty, globalMaxTS = 0.
DiveStart == [pc |-> "scan", trace |-> <<>>, coroMap |-> [p \in Coros |-> NoCoro],
              globalMaxTS |-> 0, LostWakeups |-> {}, SigbusRisks |-> {}]


\* ------------------------------------------------------------------- Init
\* The state NewTracerEngine returns in: a fresh, zero-filled region of n
\* stations with the header initialised, the listener bound, the log open.
\* p coroutines will be created by the traced process, which traces at most
\* e events in all.
InitCfg(n, p, e) ==
    /\ maxStations = n
    /\ allocated = 0
    /\ sleeping = 0
    /\ slots = [s \in 0..(n - 1) |-> [j \in SlotIdx |-> EmptyEpoch]]
    /\ stHdr = [s \in 0..(n - 1) |-> [pid |-> 0, dead |-> FALSE]]
    /\ mapped = TRUE
    /\ engPc = "accept"
    /\ phase = "first"
    /\ scanAlloc = 0
    /\ si = 0
    /\ sj = 0
    /\ cur = 0
    /\ rec = EmptyRec
    /\ harvested = 0
    /\ lastSeen = [s \in 0..(n - 1) |-> [j \in SlotIdx |-> 0]]
    /\ window = {}
    /\ wbuf = <<>>
    /\ logFile = <<>>
    /\ writerOpen = TRUE
    /\ werr = FALSE
    /\ diskFail = FALSE
    /\ listener = "open"
    /\ backlog = 0
    /\ conn = "none"
    /\ sockBytes = 0
    /\ peerClosed = FALSE
    /\ acceptErrs = 0
    /\ atDisconnect = NoDisconnect
    /\ probePc = "start"
    /\ udsFd = "unset"
    /\ cpc = [c \in Coros |-> IF c <= p THEN "new" ELSE "absent"]
    /\ myStation = [c \in Coros |-> NoStation]
    /\ ctorIdx = [c \in Coros |-> NoStation]
    /\ curSeq = [c \in Coros |-> 0]
    /\ flagSeen = [c \in Coros |-> 0]
    /\ evLeft = e
    /\ mainPc = "running"
    /\ closeCalls = 0
    /\ staleOps = {}
    /\ layout = NoLayout
    /\ jsonl = NoLine
    /\ dive = DiveStart
    /\ stationCount = n
    /\ shmFile = "open"
    /\ shmSize = HeaderSize + n * StationSize
    /\ magicNum = MagicNum
    /\ version = 1

\* The same, the Run goroutine reaching Accept late: the traced process has
\* connected, its one coroutine holds station 0 and has published a full ring
\* (seq 1..NumSlots) with nothing harvested yet; it may trace e more events.
InitRing(n, e) ==
    /\ maxStations = n
    /\ allocated = 1
    /\ sleeping = 0
    /\ slots = [s \in 0..(n - 1) |-> [j \in SlotIdx |->
                  IF s = 0
                    THEN LET k == IF j = 0 THEN NumSlots ELSE j
                         IN [seq |-> k, addr |-> k, tid |-> k, ts |-> k, act |-> k]
                    ELSE EmptyEpoch]]
    /\ stHdr = [s \in 0..(n - 1) |-> [pid |-> IF s = 0 THEN 1 ELSE 0, dead |-> FALSE]]
    /\ mapped = TRUE
    /\ engPc = "accept"
    /\ phase = "first"
    /\ scanAlloc = 0
    /\ si = 0
    /\ sj = 0
    /\ cur = 0
    /\ rec = EmptyRec
    /\ harvested = 0
    /\ lastSeen = [s \in 0..(n - 1) |-> [j \in SlotIdx |-> 0]]
    /\ window = {}
    /\ wbuf = <<>>
    /\ logFile = <<>>
    /\ writerOpen = TRUE
    /\ werr = FALSE
    /\ diskFail = FALSE
    /\ listener = "open"
    /\ backlog = 1
    /\ conn = "none"
    /\ sockBytes = 0
    /\ peerClosed = FALSE
    /\ acceptErrs = 0
    /\ atDisconnect = NoDisconnect
    /\ probePc = "attached"
    /\ udsFd = "open"
    /\ cpc = [c \in Coros |-> IF c = 1 THEN "idle" ELSE "absent"]
    /\ myStation = [c \in Coros |-> IF c = 1 THEN 0 ELSE NoStation]
    /\ ctorIdx = [c \in Coros |-> IF c = 1 THEN 0 ELSE NoStation]
    /\ curSeq = [c \in Coros |-> IF c = 1 THEN NumSlots ELSE 0]
    /\ flagSeen = [c \in Coros |-> 0]
    /\ evLeft = e
    /\ mainPc = "running"
    /\ closeCalls = 0
    /\ staleOps = {}
    /\ layout = NoLayout
    /\ jsonl = NoLine
    /\ dive = DiveStart
    /\ stationCount = n
    /\ shmFile = "open"
    /\ shmSize = HeaderSize + n * StationSize
    /\ magicNum = MagicNum
    /\ version = 1

\* A connection on which WakeBufSize wake bytes are queued: the engine accepted
\* before any coroutine existed, scanned and found allocated_count = 0, flushed,
\* armed tracer_sleeping, scanned again and is about to call conn.Read; it has
\* not been scheduled since. Meanwhile the process's coroutine got station 0
\* and published seq 1..WakeBufSize, each time loading tracer_sleeping = 1
\* and writing its byte. It may trace e more events.
InitQueued(n, e) ==
    /\ maxStations = n
    /\ allocated = 1
    /\ sleeping = 1
    /\ slots = [s \in 0..(n - 1) |-> [j \in SlotIdx |->
                  IF s = 0
                    THEN LET k == WakeBufSize - ((WakeBufSize - j) % NumSlots)
                         IN [seq |-> k, addr |-> k, tid |-> k, ts |-> k, act |-> k]
                    ELSE EmptyEpoch]]
    /\ stHdr = [s \in 0..(n - 1) |-> [pid |-> IF s = 0 THEN 1 ELSE 0, dead |-> FALSE]]
    /\ mapped = TRUE
    /\ engPc = "read"
    /\ phase = "recheck"
    /\ scanAlloc = 0
    /\ si = 0
    /\ sj = 0
    /\ cur = 0
    /\ rec = EmptyRec
    /\ harvested = 0
    /\ lastSeen = [s \in 0..(n - 1) |-> [j \in SlotIdx |-> 0]]
    /\ window = {}
    /\ wbuf = <<>>
    /\ logFile = <<>>
    /\ writerOpen = TRUE
    /\ werr = FALSE
    /\ diskFail = FALSE
    /\ listener = "open"
    /\ backlog = 0
    /\ conn = "open"
    /\ sockBytes = WakeBufSize
    /\ peerClosed = FALSE
    /\ acceptErrs = 0
    /\ atDisconnect = NoDisconnect
    /\ probePc = "attached"
    /\ udsFd = "open"
    /\ cpc = [c \in Coros |-> IF c = 1 THEN "idle" ELSE "absent"]
    /\ myStation = [c \in Coros |-> IF c = 1 THEN 0 ELSE NoStation]
    /\ ctorIdx = [c \in Coros |-> IF c = 1 THEN 0 ELSE NoStation]
    /\ curSeq = [c \in Coros |-> IF c = 1 THEN WakeBufSize ELSE 0]
    /\ flagSeen = [c \in Coros |-> IF c = 1 THEN 1 ELSE 0]
    /\ evLeft = e
    /\ mainPc = "running"
    /\ closeCalls = 0
    /\ staleOps = {}
    /\ layout = NoLayout
    /\ jsonl = NoLine
    /\ dive = DiveStart
    /\ stationCount = n
    /\ shmFile = "open"
    /\ shmSize = HeaderSize + n * StationSize
    /\ magicNum = MagicNum
    /\ version = 1

\* The region late in a long run: the traced processes so far have constructed
\* 2^32 - 1 promise objects since bootstrap, so allocated_count holds 0xFFFFFFFF.
\* The first n of them got the stations, never suspended and were destroyed, the
\* others got no station. The last of these processes has exited, the engine
\* has found nothing, closed the connection and is back in Accept; the target
\* command starts another traced process with MaxCoros coroutines.
InitTop(n, e) ==
    /\ maxStations = n
    /\ allocated = Top32
    /\ sleeping = 0
    /\ slots = [s \in 0..(n - 1) |-> [j \in SlotIdx |-> EmptyEpoch]]
    /\ stHdr = [s \in 0..(n - 1) |-> [pid |-> GoneCoro, dead |-> TRUE]]
    /\ mapped = TRUE
    /\ engPc = "accept"
    /\ phase = "first"
    /\ scanAlloc = n
    /\ si = n
    /\ sj = 0
    /\ cur = 0
    /\ rec = EmptyRec
    /\ harvested = 0
    /\ lastSeen = [s \in 0..(n - 1) |-> [j \in SlotIdx |-> 0]]
    /\ window = {}
    /\ wbuf = <<>>
    /\ logFile = <<>>
    /\ writerOpen = TRUE
    /\ werr = FALSE
    /\ diskFail = FALSE
    /\ listener = "open"
    /\ backlog = 0
    /\ conn = "none"
    /\ sockBytes = 0
    /\ peerClosed = FALSE
    /\ acceptErrs = 0
    /\ atDisconnect = NoDisconnect
    /\ probePc = "start"
    /\ udsFd = "unset"
    /\ cpc = [c \in Coros |-> "new"]
    /\ myStation = [c \in Coros |-> NoStation]
    /\ ctorIdx = [c \in Coros |-> NoStation]
    /\ curSeq = [c \in Coros |-> 0]
    /\ flagSeen = [c \in Coros |-> 0]
    /\ evLeft = e
    /\ mainPc = "running"
    /\ closeCalls = 0
    /\ staleOps = {}
    /\ layout = NoLayout
    /\ jsonl = NoLine
    /\ dive = DiveStart
    /\ stationCount = n
    /\ shmFile = "open"
    /\ shmSize = HeaderSize + n * StationSize
    /\ magicNum = MagicNum
    /\ version = 1

\* ------------------------------------------------- layout of the region
\* A struct declaration is the sequence of its fields, each with its size and
\* alignment in bytes on a 64-bit target. Both compilers place a field at the
\* next multiple of its alignment and round the size of the struct up to the
\* struct's alignment (the largest of its fields', or the alignas).
Field(n, sz, al) == [name |-> n, size |-> sz, align |-> al]

AlignUp(x, a) == ((x + a - 1) \div a) * a

RECURSIVE FieldOffset(_, _)
FieldOffset(fs, k) ==
    IF k = 1 THEN 0
             ELSE AlignUp(FieldOffset(fs, k - 1) + fs[k - 1].size, fs[k].align)

RECURSIVE MaxAlign(_, _)
MaxAlign(fs, k) ==
    IF k = 0 THEN 1
             ELSE LET m == MaxAlign(fs, k - 1)
                  IN IF fs[k].align > m THEN fs[k].align ELSE m

StructAlign(fs, alignas) ==
    IF alignas > MaxAlign(fs, Len(fs)) THEN alignas ELSE MaxAlign(fs, Len(fs))

StructSize(fs, alignas) ==
    AlignUp(FieldOffset(fs, Len(fs)) + fs[Len(fs)].size, StructAlign(fs, alignas))

OffsetOf(fs, n) == FieldOffset(fs, CHOOSE k \in 1..Len(fs) : fs[k].name = n)

\* structure/station.go
GoGlobalHeader ==
    <<Field("MagicNum", 8, 8), Field("Version", 4, 4), Field("MaxStations", 4, 4),
      Field("AllocatedCount", 4, 4), Field("TracerSleeping", 4, 4),
      Field("_", 1004, 1)>>

GoEpoch ==
    <<Field("Timestamp", 8, 8), Field("TID", 8, 8), Field("Addr", 8, 8),
      Field("Seq", 8, 8), Field("Reserved", 31, 1), Field("IsActive", 1, 1)>>

GoStationHeader ==
    <<Field("ProbeID", 8, 8), Field("BirthTS", 8, 8), Field("IsDead", 1, 1),
      Field("_", 47, 1)>>

GoStationData ==
    <<Field("Header", StructSize(GoStationHeader, 1), StructAlign(GoStationHeader, 1)),
      Field("Slots", NumSlots * StructSize(GoEpoch, 1), StructAlign(GoEpoch, 1)),
      Field("Flexible", 448, 1)>>

\* the probe's header
CppEpoch ==
    <<Field("timestamp", 8, 8), Field("tid", 8, 8), Field("addr", 8, 8),
      Field("seq", 8, 8), Field("reserved", 31, 1), Field("is_active", 1, 1)>>

CppStationHeader ==
    <<Field("probe_id", 8, 8), Field("birth_ts", 8, 8), Field("is_dead", 1, 1),
      Field("_pad", 47, 1)>>

CppStationData ==
    <<Field("header", StructSize(CppStationHeader, 1), StructAlign(CppStationHeader, 1)),
      Field("slots", NumSlots * StructSize(CppEpoch, 64), StructAlign(CppEpoch, 64)),
      Field("flexible", 448, 1)>>

CppGlobalHeader ==
    <<Field("magic_number", 8, 8), Field("version", 4, 4), Field("max_stations", 4, 4),
      Field("allocated_count", 4, 4), Field("tracer_sleeping", 4, 4),
      Field("_reserved", 1000, 1)>>

\* NewTracerEngine: unsafe.Slice((*StationData)(&mmapData[HeaderSize]), n), then
\* Harvest's &s.Slots[j]
EngineSlotOffset(i, j) ==
    HeaderSize + i * StructSize(GoStationData, 1) + OffsetOf(GoStationData, "Slots")
        + j * StructSize(GoEpoch, 1)

\* InitTracer: g_stations = mapped + 1024, then my_station->slots[j]
ProbeSlotOffset(i, j) ==
    1024 + i * StructSize(CppStationData, 1024) + OffsetOf(CppStationData, "slots")
        + j * StructSize(CppEpoch, 64)

\* Both sides address slot j of station i.
LayoutSlot ==
    /\ \E i \in 0..(MaxLayoutStations - 1), j \in SlotIdx :
          layout' = [i |-> i, j |-> j, engine |-> EngineSlotOffset(i, j),
                     probe |-> ProbeSlotOffset(i, j)]
    /\ UNCHANGED <<regionVars, engPc, scanVars, writerVars, sockVars, coroVars,
                   probeVars, mainPc, closeCalls, staleOps, shmFile, stationCount,
                   shmSize, magicNum, version, jsonl, dive>>

\* ------------------------------------------------- the serializer's bytes
\* A byte string is a sequence of one-character strings. A uint64 is held as
\* its four 16-bit words, most significant first.
hexChars == <<"0", "1", "2", "3", "4", "5", "6", "7", "8", "9", "a", "b", "c", "d", "e", "f">>

DecChars == <<"0", "1", "2", "3", "4", "5", "6", "7", "8", "9">>

\* (v >> (i*4)) & 0xf, for a uint64 given by its words
Nibble(v, i) == (v[4 - (i \div 4)] \div (16 ^ (i % 4))) % 16

RECURSIVE HexFrom(_, _)
HexFrom(v, i) ==
    IF i < 0 THEN <<>> ELSE <<hexChars[Nibble(v, i) + 1]>> \o HexFrom(v, i - 1)

RECURSIVE TrimZeros(_)
TrimZeros(cs) == IF Len(cs) > 1 /\ cs[1] = "0" THEN TrimZeros(Tail(cs)) ELSE cs

\* The digits without the leading zeros.
appendHexTrim(dst, v) == dst \o <<"0", "x">> \o TrimZeros(HexFrom(v, 15))

\* appendHex: '0', 'x', then hexChars[(v>>(i*4))&0xf] for i = 15 down to 0
appendHex(dst, v) == dst \o <<"0", "x">> \o HexFrom(v, 15)

\* strconv.AppendUint(buf, n, 10)
RECURSIVE AppendUint(_, _)
AppendUint(buf, n) ==
    IF n < 10 THEN buf \o <<DecChars[n + 1]>>
              ELSE AppendUint(buf, n \div 10) \o <<DecChars[(n % 10) + 1]>>

KeyProbeId == <<"{", "\"", "p", "r", "o", "b", "e", "_", "i", "d", "\"", ":">>
KeyTid == <<",", "\"", "t", "i", "d", "\"", ":">>
KeyAddr == <<",", "\"", "a", "d", "d", "r", "\"", ":", "\"">>
KeySeq == <<"\"", ",", "\"", "s", "e", "q", "\"", ":">>
KeyIsActive == <<",", "\"", "i", "s", "_", "a", "c", "t", "i", "v", "e", "\"", ":">>
KeyTs == <<",", "\"", "t", "s", "\"", ":">>
LineEnd == <<"}", "\n">>
LitTrue == <<"t", "r", "u", "e">>
LitFalse == <<"f", "a", "l", "s", "e">>

\* MarshalSlotJSONL, given the values it reads from the station and the slot
\* and the snapshot it is passed.
MarshalSlotJSONL(probeId, tid, addr, observedSeq, isActive, timestamp) ==
    LET b1 == AppendUint(KeyProbeId, probeId)
        b2 == AppendUint(b1 \o KeyTid, tid)
        b3 == appendHex(b2 \o KeyAddr, addr)
        b4 == AppendUint(b3 \o KeySeq, observedSeq)
        b5 == b4 \o KeyIsActive \o (IF isActive THEN LitTrue ELSE LitFalse)
        b6 == AppendUint(b5 \o KeyTs, timestamp)
    IN b6 \o LineEnd

\* The values the serializer is applied to.
FormatUints == {0, 7, 10, 123}
FormatWords == {0, 2748, 65535}
FormatAddrs == {<<a, b, 0, d>> : a \in {0, 4660}, b \in FormatWords, d \in FormatWords}

\* StationWriter.WriteSlot: sw.line = s.MarshalSlotJSONL(sw.line[:0], i, seq)
FormatLine ==
    /\ \E pid \in {1, 140}, tid \in FormatUints, addr \in FormatAddrs,
          seq \in {1, 10}, act \in BOOLEAN :
          jsonl' = [in |-> [pid |-> pid, tid |-> tid, addr |-> addr, seq |-> seq,
                            act |-> act, ts |-> tid + seq],
                    out |-> MarshalSlotJSONL(pid, tid, addr, seq, act, tid + seq)]
    /\ UNCHANGED <<regionVars, engPc, scanVars, writerVars, sockVars, coroVars,
                   probeVars, mainPc, closeCalls, staleOps, shmFile, stationCount,
                   shmSize, magicNum, version, layout, dive>>

\* ------------------------------------------------ the analyzer (RunDeepDive)
\* The address of a coroutine frame, h.address(), as the words of a uint64.
HandleAddr == <<0, 21845, 4660, 43968>>

\* TracedAwaiter: await_suspend calls write_trace(h.address(), false) and
\* await_resume calls write_trace(0, true).
TracedAddr(isActive) == IF isActive THEN <<0, 0, 0, 0>> ELSE HandleAddr

\* The timestamps (ns) of the lines the analyzer is given.
DiveTimes == {0, OneSecondNs, 2 * OneSecondNs + 1}

\* The lines a trace file of the engine can hold next: one record per
\* (probe_id, seq), the timestamps of a coroutine not decreasing with its seq.
\* The order of the lines is the order of emission (ascending slot index inside
\* a pass), which is not the order of seq.
\* The addr field of a line is the text MarshalSlotJSONL makes of the address
\* the reference probe passed to write_trace.
DiveLines(trace) ==
    {[pid |-> ev.pid, seq |-> ev.seq, act |-> ev.act, ts |-> ev.ts,
      addr |-> appendHex(<<>>, TracedAddr(ev.act))] :
        ev \in {e \in [pid : Coros, seq : 1..MaxLines, act : BOOLEAN, ts : DiveTimes] :
                  \A i \in 1..Len(trace) :
                      trace[i].pid = e.pid =>
                          /\ trace[i].seq # e.seq
                          /\ trace[i].seq < e.seq => trace[i].ts <= e.ts
                          /\ trace[i].seq > e.seq => trace[i].ts >= e.ts}}

\* The loop body of RunDeepDive for one line: globalMaxTS and the entry of
\* coroMap[ev.ProbeID], whose LastTS and LastActive are overwritten.
DiveUpdate(d, ev) ==
    [d EXCEPT !.trace = Append(@, ev),
              !.globalMaxTS = IF ev.ts > @ THEN ev.ts ELSE @,
              !.coroMap[ev.pid] = [exists |-> TRUE, LastTS |-> ev.ts,
                                   LastActive |-> ev.act, LastAddr |-> ev.addr]]

\* RunDeepDive: scanner.Scan() returns a line.
DiveScanLine ==
    /\ dive.pc = "scan"
    /\ Len(dive.trace) < MaxLines
    /\ \E ev \in DiveLines(dive.trace) : dive' = DiveUpdate(dive, ev)
    /\ UNCHANGED <<regionVars, engPc, scanVars, writerVars, sockVars, coroVars,
                   probeVars, mainPc, closeCalls, staleOps, shmFile, stationCount,
                   shmSize, magicNum, version, layout, jsonl>>

\* RunDeepDive: `if !state.LastActive && (globalMaxTS-state.LastTS) > OneSecondNs`
IsLostWakeup(state, maxTS) == ~state.LastActive /\ (maxTS - state.LastTS) > OneSecondNs

\* The literal "0x0000000000000000".
ZeroAddrText == <<"0", "x">> \o [i \in 1..16 |-> "0"]

\* RunDeepDive: `if state.LastAddr == "0x0000000000000000" ||
\* len(state.LastAddr) <= 4`
IsSigbusRisk(state) == state.LastAddr = ZeroAddrText \/ Len(state.LastAddr) <= 4

\* RunDeepDive: the end of the file, then the loop over coroMap that fills
\* report.SigbusRisks and report.LostWakeups.
DiveHeuristics ==
    /\ dive.pc = "scan"
    /\ dive' = [dive EXCEPT
                  !.pc = "done",
                  !.LostWakeups = {p \in Coros : /\ dive.coroMap[p].exists
                                                  /\ IsLostWakeup(dive.coroMap[p],
                                                                  dive.globalMaxTS)},
                  !.SigbusRisks = {p \in Coros : /\ dive.coroMap[p].exists
                                                  /\ IsSigbusRisk(dive.coroMap[p])}]
    /\ UNCHANGED <<regionVars, engPc, scanVars, writerVars, sockVars, coroVars,
                   probeVars, mainPc, closeCalls, staleOps, shmFile, stationCount,
                   shmSize, magicNum, version, layout, jsonl>>

\* ------------------------------------------------ bootstrap (NewTracerEngine)
\* Before NewTracerEngine(n, ...) runs. The region variables hold the content
\* of the file at shmPath: nothing, or (stale) what an earlier run of the same
\* capacity left there, one station reserved and one event published, the
\* engine of that run asleep.
InitBoot(n, stale) ==
    /\ stationCount = n
    /\ maxStations = IF stale THEN n ELSE 0
    /\ allocated = IF stale THEN 1 ELSE 0
    /\ sleeping = IF stale THEN 1 ELSE 0
    /\ slots = [s \in 0..(n - 1) |-> [j \in SlotIdx |->
                  IF stale /\ s = 0 /\ j = 1
                    THEN [seq |-> 1, addr |-> 1, tid |-> 1, ts |-> 1, act |-> 1]
                    ELSE EmptyEpoch]]
    /\ stHdr = [s \in 0..(n - 1) |->
                  [pid |-> IF stale /\ s = 0 THEN 1 ELSE 0, dead |-> FALSE]]
    /\ magicNum = IF stale THEN MagicNum ELSE NoMagic
    /\ version = IF stale THEN 1 ELSE 0
    /\ shmSize = IF stale THEN HeaderSize + n * StationSize ELSE 0
    /\ shmFile = "none"
    /\ mapped = FALSE
    /\ engPc = "boot"
    /\ phase = "first"
    /\ scanAlloc = 0
    /\ si = 0
    /\ sj = 0
    /\ cur = 0
    /\ rec = EmptyRec
    /\ harvested = 0
    /\ lastSeen = [s \in 0..(n - 1) |-> [j \in SlotIdx |-> 0]]
    /\ window = {}
    /\ wbuf = <<>>
    /\ logFile = <<>>
    /\ writerOpen = FALSE
    /\ werr = FALSE
    /\ diskFail = FALSE
    /\ listener = "none"
    /\ backlog = 0
    /\ conn = "none"
    /\ sockBytes = 0
    /\ peerClosed = FALSE
    /\ acceptErrs = 0
    /\ atDisconnect = NoDisconnect
    /\ probePc = "unlaunched"
    /\ udsFd = "unset"
    /\ cpc = [c \in Coros |-> IF c = 1 THEN "new" ELSE "absent"]
    /\ myStation = [c \in Coros |-> NoStation]
    /\ ctorIdx = [c \in Coros |-> NoStation]
    /\ curSeq = [c \in Coros |-> 0]
    /\ flagSeen = [c \in Coros |-> 0]
    /\ evLeft = MaxEvents
    /\ mainPc = "remove_shm"
    /\ closeCalls = 0
    /\ staleOps = {}
    /\ layout = NoLayout
    /\ jsonl = NoLine
    /\ dive = DiveStart

BootFrame == <<engPc, scanVars, wbuf, logFile, werr, diskFail, backlog, conn, sockBytes, peerClosed,
               acceptErrs, atDisconnect, coroVars, probeVars, closeCalls, staleOps, stationCount,
               layout, jsonl, dive>>

\* A step of NewTracerEngine that fails: `return nil, err`, nothing released.
ReturnErr == mainPc' = "returned_err"

\* os.Remove(shmPath), the error ignored. When it removes the file the
\* OpenFile that follows creates an empty one.
RemoveShm ==
    /\ mainPc = "remove_shm"
    /\ \E ok \in BOOLEAN :
          IF ok
            THEN /\ maxStations' = 0
                 /\ allocated' = 0
                 /\ sleeping' = 0
                 /\ slots' = [s \in DOMAIN slots |-> [j \in SlotIdx |-> EmptyEpoch]]
                 /\ stHdr' = [s \in DOMAIN stHdr |-> [pid |-> 0, dead |-> FALSE]]
                 /\ magicNum' = NoMagic
                 /\ version' = 0
                 /\ shmSize' = 0
            ELSE UNCHANGED <<maxStations, allocated, sleeping, slots, stHdr, magicNum,
                             version, shmSize>>
    /\ mainPc' = "open_shm"
    /\ UNCHANGED <<shmFile, mapped, listener, writerOpen>>
    /\ UNCHANGED BootFrame

\* os.OpenFile(shmPath, O_CREATE|O_RDWR, 0666): no O_TRUNC, a file that is
\* still there keeps its content.
OpenShm ==
    /\ mainPc = "open_shm"
    /\ \E ok \in BOOLEAN :
          IF ok
            THEN /\ shmFile' = "open"
                 /\ mainPc' = "truncate"
            ELSE /\ shmFile' = shmFile
                 /\ ReturnErr
    /\ UNCHANGED <<maxStations, allocated, sleeping, slots, stHdr, magicNum, version,
                   shmSize, mapped, listener, writerOpen>>
    /\ UNCHANGED BootFrame

\* NewTracerEngine: memSize
MemSize(count) == HeaderSize + count * StationSize

\* f.Truncate(int64(memSize)): the bytes added read as zero, the bytes kept
\* are kept.
Truncate ==
    /\ mainPc = "truncate"
    /\ \E ok \in BOOLEAN :
          IF ok
            THEN /\ shmSize' = MemSize(stationCount)
                 /\ mainPc' = "mmap"
            ELSE /\ shmSize' = shmSize
                 /\ ReturnErr
    /\ UNCHANGED <<maxStations, allocated, sleeping, slots, stHdr, magicNum, version,
                   shmFile, mapped, listener, writerOpen>>
    /\ UNCHANGED BootFrame

\* syscall.Mmap(f.Fd(), 0, memSize, PROT_READ|PROT_WRITE, MAP_SHARED)
Mmap ==
    /\ mainPc = "mmap"
    /\ \E ok \in BOOLEAN :
          IF ok
            THEN /\ mapped' = TRUE
                 /\ mainPc' = "init_header"
            ELSE /\ mapped' = mapped
                 /\ ReturnErr
    /\ UNCHANGED <<maxStations, allocated, sleeping, slots, stHdr, magicNum, version,
                   shmSize, shmFile, listener, writerOpen>>
    /\ UNCHANGED BootFrame

\* header.MagicNum = ...; header.Version = 1; header.MaxStations = stationCount;
\* the two atomic stores of 0. The stations are not written.
InitHeader ==
    /\ mainPc = "init_header"
    /\ magicNum' = MagicNum
    /\ version' = 1
    /\ maxStations' = stationCount
    /\ allocated' = 0
    /\ sleeping' = 0
    /\ mainPc' = "listen"
    /\ UNCHANGED <<slots, stHdr, shmSize, shmFile, mapped, listener, writerOpen>>
    /\ UNCHANGED BootFrame

\* os.Remove(sockPath); net.Listen("unix", sockPath)
Listen ==
    /\ mainPc = "listen"
    /\ \E ok \in BOOLEAN :
          IF ok
            THEN /\ listener' = "open"
                 /\ mainPc' = "new_writer"
            ELSE /\ listener' = listener
                 /\ ReturnErr
    /\ UNCHANGED <<maxStations, allocated, sleeping, slots, stHdr, magicNum, version,
                   shmSize, shmFile, mapped, writerOpen>>
    /\ UNCHANGED BootFrame

\* structure.NewStationWriter(logPath), and the return of the engine with
\* lastSeen: make([][8]uint64, stationCount).
NewStationWriter ==
    /\ mainPc = "new_writer"
    /\ \E ok \in BOOLEAN :
          IF ok
            THEN /\ writerOpen' = TRUE
                 /\ mainPc' = "returned_ok"
            ELSE /\ writerOpen' = writerOpen
                 /\ ReturnErr
    /\ UNCHANGED <<maxStations, allocated, sleeping, slots, stHdr, magicNum, version,
                   shmSize, shmFile, mapped, listener>>
    /\ UNCHANGED BootFrame

\* main: `go tracer.Run()` and the launch of the target command.
MainStart ==
    /\ mainPc = "returned_ok"
    /\ mainPc' = "running"
    /\ engPc' = "accept"
    /\ probePc' = "start"
    /\ UNCHANGED <<regionVars, scanVars, writerVars, sockVars, coroVars, udsFd,
                   closeCalls, staleOps, shmFile, bootVars>>

\* main: log.Fatalf("Failed to initialize Tracer Engine: ...")
MainFatal ==
    /\ mainPc = "returned_err"
    /\ mainPc' = "exited"
    /\ UNCHANGED <<regionVars, engPc, scanVars, writerVars, sockVars, coroVars,
                   probeVars, closeCalls, staleOps, shmFile, bootVars>>

\* ------------------------------------------------------------ probe (C++)
\* InitTracer: map the region, connect the Unix-domain socket. A failed
\* connect leaves g_uds_fd = -1 and the probe keeps running.
InitTracer ==
    /\ probePc = "start"
    /\ mainPc # "exited"
    /\ probePc' = "attached"
    /\ IF listener = "open"
         THEN /\ udsFd' = "open"
              /\ backlog' = backlog + 1
         ELSE /\ udsFd' = "failed"
              /\ backlog' = backlog
    /\ UNCHANGED <<regionVars, engPc, scanVars, writerVars, listener, conn,
                   sockBytes, peerClosed, acceptErrs, atDisconnect, coroVars, mainVars>>

\* InitTracer with the region mapped and the connect refused although the
\* engine listens (the path does not fit sun_path, the descriptors have run
\* out, the socket file is not accessible): `::close(g_uds_fd); g_uds_fd = -1;`
\* and the probe goes on.
InitTracerNoSocket ==
    /\ probePc = "start"
    /\ listener = "open"
    /\ probePc' = "attached"
    /\ udsFd' = "failed"
    /\ UNCHANGED <<regionVars, engPc, scanVars, writerVars, sockVars, coroVars, mainVars>>

\* A lost update: the counter keeps its value.
FetchAddLost(a) == a

\* allocated_count.fetch_add(1, relaxed) on a std::atomic<uint32_t>: the value
\* the counter holds afterwards (the value returned is the one before), modulo
\* 2^32 in the representation of U32Lt.
FetchAdd(a) == IF a = MaxInt32 THEN -MaxInt32 - 1 ELSE a + 1

\* PromiseMixin(): reserve a station by fetch_add on allocated_count.
PromiseMixinCtor(c) ==
    /\ probePc = "attached"
    /\ cpc[c] = "new"
    /\ allocated' = FetchAdd(allocated)
    /\ ctorIdx' = [ctorIdx EXCEPT ![c] = allocated]
    /\ IF U32Lt(allocated, maxStations)
         THEN /\ myStation' = [myStation EXCEPT ![c] = allocated]
              /\ stHdr' = [stHdr EXCEPT ![allocated] = [pid |-> c, dead |-> FALSE]]
         ELSE /\ UNCHANGED <<myStation, stHdr>>
    /\ cpc' = [cpc EXCEPT ![c] = "idle"]
    /\ UNCHANGED <<maxStations, sleeping, slots, mapped, engPc, scanVars, writerVars,
                   sockVars, curSeq, flagSeen, evLeft, probeVars, mainVars>>

\* ~PromiseMixin()
PromiseMixinDtor(c) ==
    /\ probePc = "attached"
    /\ cpc[c] = "idle"
    /\ cpc' = [cpc EXCEPT ![c] = "dead"]
    /\ IF myStation[c] # NoStation
         THEN stHdr' = [stHdr EXCEPT ![myStation[c]].dead = TRUE]
         ELSE UNCHANGED stHdr
    /\ UNCHANGED <<maxStations, allocated, sleeping, slots, mapped, engPc, scanVars,
                   writerVars, sockVars, myStation, ctorIdx, curSeq, flagSeen, evLeft,
                   probeVars, mainVars>>

SlotOf(k) == k % NumSlots

StoreField(c, f) ==
    [slots EXCEPT ![myStation[c]][SlotOf(curSeq[c])][f] = curSeq[c]]

CoroFrame == <<maxStations, allocated, sleeping, stHdr, mapped, engPc, phase,
               scanAlloc, si, sj, cur, rec, harvested, lastSeen, writerVars, listener, backlog, conn, peerClosed, acceptErrs, atDisconnect,
               myStation, ctorIdx, probeVars, mainVars>>

\* write_trace: `if (!my_station) return;` or current_seq++ and the store of addr.
write_trace(c) ==
    /\ probePc = "attached"
    /\ cpc[c] = "idle"
    /\ evLeft > 0
    /\ evLeft' = evLeft - 1
    /\ IF myStation[c] = NoStation
         THEN UNCHANGED <<curSeq, slots, cpc>>
         ELSE /\ curSeq' = [curSeq EXCEPT ![c] = @ + 1]
              /\ slots' = [slots EXCEPT ![myStation[c]][SlotOf(curSeq[c] + 1)].addr
                                            = curSeq[c] + 1]
              /\ cpc' = [cpc EXCEPT ![c] = "st_tid"]
    /\ UNCHANGED <<flagSeen, sockBytes, window>>
    /\ UNCHANGED CoroFrame

WtStoreTid(c) ==
    /\ probePc = "attached"
    /\ cpc[c] = "st_tid"
    /\ slots' = StoreField(c, "tid")
    /\ cpc' = [cpc EXCEPT ![c] = "st_ts"]
    /\ UNCHANGED <<curSeq, flagSeen, evLeft, sockBytes, window>>
    /\ UNCHANGED CoroFrame

WtStoreTimestamp(c) ==
    /\ probePc = "attached"
    /\ cpc[c] = "st_ts"
    /\ slots' = StoreField(c, "ts")
    /\ cpc' = [cpc EXCEPT ![c] = "st_act"]
    /\ UNCHANGED <<curSeq, flagSeen, evLeft, sockBytes, window>>
    /\ UNCHANGED CoroFrame

WtStoreIsActive(c) ==
    /\ probePc = "attached"
    /\ cpc[c] = "st_act"
    /\ slots' = StoreField(c, "act")
    /\ cpc' = [cpc EXCEPT ![c] = "st_seq"]
    /\ UNCHANGED <<curSeq, flagSeen, evLeft, sockBytes, window>>
    /\ UNCHANGED CoroFrame

\* The engine is between a doScan that returned 0 and the start of the doScan
\* of the double-check.
InWindow == engPc \in {"flush", "arm"} \/ (engPc = "scan" /\ phase = "recheck")

\* History: the seq store of coroutine c lands; remember it if it lands there.
Landed(c) ==
    IF InWindow
      THEN window \cup {[st |-> myStation[c], sl |-> SlotOf(curSeq[c]), seq |-> curSeq[c]]}
      ELSE window

\* slot.seq.store(current_seq, release), visible before the load that follows.
WtStoreSeq(c) ==
    /\ probePc = "attached"
    /\ cpc[c] = "st_seq"
    /\ slots' = StoreField(c, "seq")
    /\ window' = Landed(c)
    /\ cpc' = [cpc EXCEPT ![c] = "ld_flag"]
    /\ UNCHANGED <<curSeq, flagSeen, evLeft, sockBytes>>
    /\ UNCHANGED CoroFrame

AfterLoad(v) == IF v = 1 THEN "wake" ELSE "idle"

\* g_header->tracer_sleeping.load(relaxed)
WtLoadSleeping(c) ==
    /\ probePc = "attached"
    /\ cpc[c] = "ld_flag"
    /\ flagSeen' = [flagSeen EXCEPT ![c] = sleeping]
    /\ cpc' = [cpc EXCEPT ![c] = AfterLoad(sleeping)]
    /\ UNCHANGED <<curSeq, slots, evLeft, sockBytes, window>>
    /\ UNCHANGED CoroFrame

\* A release store followed by a relaxed load of another word: nothing orders
\* the pair, and the load may be satisfied while the store is not yet visible
\* to the engine (store buffering). The load happens first ...
WtLoadSleepingEarly(c) ==
    /\ probePc = "attached"
    /\ cpc[c] = "st_seq"
    /\ flagSeen' = [flagSeen EXCEPT ![c] = sleeping]
    /\ cpc' = [cpc EXCEPT ![c] = "st_seq_late"]
    /\ UNCHANGED <<curSeq, slots, evLeft, sockBytes, window>>
    /\ UNCHANGED CoroFrame

\* ... and the seq store becomes visible after it.
WtStoreSeqLate(c) ==
    /\ probePc = "attached"
    /\ cpc[c] = "st_seq_late"
    /\ slots' = StoreField(c, "seq")
    /\ window' = Landed(c)
    /\ cpc' = [cpc EXCEPT ![c] = AfterLoad(flagSeen[c])]
    /\ UNCHANGED <<curSeq, flagSeen, evLeft, sockBytes>>
    /\ UNCHANGED CoroFrame

\* trigger_uds_wakeup: one non-blocking byte, a failure is ignored.
trigger_uds_wakeup(c) ==
    /\ probePc = "attached"
    /\ cpc[c] = "wake"
    /\ sockBytes' = IF udsFd = "open" THEN sockBytes + 1 ELSE sockBytes
    /\ cpc' = [cpc EXCEPT ![c] = "idle"]
    /\ UNCHANGED <<curSeq, slots, flagSeen, evLeft, window>>
    /\ UNCHANGED CoroFrame

\* trigger_uds_wakeup: ::write returns -1 (no buffer space, say) and the
\* result is not looked at.
WakeWriteFails(c) ==
    /\ probePc = "attached"
    /\ cpc[c] = "wake"
    /\ udsFd = "open"
    /\ cpc' = [cpc EXCEPT ![c] = "idle"]
    /\ UNCHANGED <<curSeq, slots, flagSeen, evLeft, sockBytes, window>>
    /\ UNCHANGED CoroFrame

CoroQuiet(c) == cpc[c] \in {"absent", "new", "idle", "dead"}

\* The traced process ends: its end of the socket is closed.
ProbeExit ==
    /\ probePc = "attached"
    /\ \A c \in Coros : CoroQuiet(c)
    /\ probePc' = "exited"
    /\ udsFd' = IF udsFd = "open" THEN "closed" ELSE udsFd
    /\ peerClosed' = (udsFd = "open")
    /\ UNCHANGED <<regionVars, engPc, scanVars, writerVars, listener, backlog, conn,
                   sockBytes, acceptErrs, atDisconnect, coroVars, mainVars>>

\* The target command starts another traced process once the first has ended:
\* a new address space, InitTracer again, a coroutine of its own.
ProbeRelaunch ==
    /\ probePc = "exited"
    /\ mainPc # "exited"
    /\ \E c \in Coros :
          /\ cpc[c] = "absent"
          /\ cpc' = [cpc EXCEPT ![c] = "new"]
    /\ probePc' = "start"
    /\ udsFd' = "unset"
    /\ UNCHANGED <<regionVars, engPc, scanVars, writerVars, sockVars, myStation, ctorIdx,
                   curSeq, flagSeen, evLeft, mainVars>>

\* ------------------------------------------------------------ engine (Go)
EngRuns == mainPc # "exited"

EngFrame == <<maxStations, allocated, slots, stHdr, mapped, coroVars, probeVars, mainVars>>

\* The table cleared for the new connection.
LastSeenReset(seen) == [s \in DOMAIN seen |-> [j \in SlotIdx |-> 0]]

\* Run: e.lastSeen is made once, by NewTracerEngine; the loop of Run leaves it
\* alone between one connection and the next.
LastSeenAtAccept(seen) == seen

\* Run: conn, err := e.listener.Accept(); on an error print it and `continue`.
Accept ==
    /\ EngRuns
    /\ engPc = "accept"
    /\ listener = "open"
    /\ backlog > 0
    /\ backlog' = backlog - 1
    /\ conn' = "open"
    /\ engPc' = "scan"
    /\ phase' = "first"
    /\ lastSeen' = LastSeenAtAccept(lastSeen)
    /\ UNCHANGED <<sleeping, scanAlloc, si, sj, cur, rec, harvested, window,
                   writerVars, listener, sockBytes, peerClosed, acceptErrs, atDisconnect>>
    /\ UNCHANGED EngFrame

\* The loop ending at the first error.
AfterAcceptErrStop == "stopped"

\* Run: `if err != nil { fmt.Printf(...); continue }`
AfterAcceptErr == "accept"

\* Accept returns an error: the listener has been closed, or the call fails
\* for a passing reason (no descriptor left, the connection aborted) and the
\* connection stays queued.
AcceptError ==
    /\ EngRuns
    /\ engPc = "accept"
    /\ listener \in {"open", "closed"}
    /\ acceptErrs < MaxAcceptErrs
    /\ acceptErrs' = acceptErrs + 1
    /\ engPc' = AfterAcceptErr
    /\ UNCHANGED <<sleeping, scanVars, writerVars, listener, backlog, conn, sockBytes,
                   peerClosed, atDisconnect>>
    /\ UNCHANGED EngFrame

\* The loop arming the flag with the buffer not flushed.
AfterScanNoFlush(ph, h) ==
    IF ph = "first"
      THEN (IF h > 0 THEN "scan" ELSE "arm")
      ELSE (IF h > 0 THEN "clear" ELSE "read")

\* hotHarvestLoop: where the loop goes when doScan has returned h.
AfterScan(ph, h) ==
    IF ph = "first"
      THEN (IF h > 0 THEN "scan" ELSE "flush")
      ELSE (IF h > 0 THEN "clear" ELSE "read")

\* doScan: the station count the pass iterates over.
Clamp(a, m) == IF U32Lt(m, a) THEN m ELSE a

\* The clamped count stored back into the header.
AllocWrittenBack(a, limit) == limit

\* doScan: `allocated = e.maxStations` assigns the local copy; the header's
\* allocated_count keeps its value.
AllocAfterScan(a, limit) == a

\* doScan: load allocated_count, clamp, enter the loop over the stations.
doScanFor(limit) ==
    /\ EngRuns
    /\ engPc = "scan"
    /\ mapped
    /\ scanAlloc' = limit
    /\ harvested' = 0
    /\ si' = 0
    /\ sj' = 0
    /\ engPc' = IF limit = 0 THEN AfterScan(phase, 0) ELSE "slot"
    /\ window' = IF phase = "first" THEN {} ELSE window
    /\ allocated' = AllocAfterScan(allocated, limit)
    /\ UNCHANGED <<sleeping, phase, cur, rec, lastSeen, writerVars, sockVars>>
    /\ UNCHANGED <<maxStations, slots, stHdr, mapped, coroVars, probeVars, mainVars>>

\* engine.go: `if allocated > e.maxStations { allocated = e.maxStations }`
doScan == doScanFor(Clamp(allocated, maxStations))

\* The other engine.go of the repository clamps to its constant MaxStations:
\* `if allocated > MaxStations { allocated = MaxStations }`
ClampConst(a) == IF U32Lt(MaxStations, a) THEN MaxStations ELSE a

doScanConst == doScanFor(ClampConst(allocated))

\* doScan: e.stations[i] with i outside the slice: the runtime panics.
IndexPanic ==
    /\ EngRuns
    /\ engPc = "slot"
    /\ si >= maxStations
    /\ engPc' = "panic"
    /\ UNCHANGED <<sleeping, scanVars, writerVars, sockVars>>
    /\ UNCHANGED EngFrame

\* The loops of Harvest and doScan move on from slot (si, sj) with h harvested.
Advance(h) ==
    /\ harvested' = h
    /\ IF sj + 1 < NumSlots
         THEN /\ sj' = sj + 1
              /\ si' = si
              /\ engPc' = "slot"
         ELSE /\ sj' = 0
              /\ si' = si + 1
              /\ engPc' = IF si + 1 < scanAlloc THEN "slot" ELSE AfterScan(phase, h)

\* The comparison admitting an equal seq.
IsNewOrSame(loaded, seen) == loaded >= seen

\* Harvest: `if currentSeq > lastSeenSeqs[i]`
IsNew(loaded, seen) == loaded > seen

\* Harvest: currentSeq := atomic.LoadUint64(&slot.Seq) and the comparison.
HarvestLoadSeq ==
    /\ EngRuns
    /\ engPc = "slot"
    /\ mapped
    /\ si < maxStations
    /\ cur' = slots[si][sj].seq
    /\ IF IsNew(slots[si][sj].seq, lastSeen[si][sj])
         THEN /\ engPc' = "rd_tid"
              /\ UNCHANGED <<si, sj, harvested>>
         ELSE Advance(harvested)
    /\ UNCHANGED <<sleeping, phase, scanAlloc, rec, lastSeen, window, writerVars, sockVars>>
    /\ UNCHANGED EngFrame

\* MarshalSlotJSONL: s.Header.ProbeID and slot.TID
MarshalTid ==
    /\ EngRuns
    /\ engPc = "rd_tid"
    /\ mapped
    /\ rec' = [pid |-> stHdr[si].pid, tid |-> slots[si][sj].tid, addr |-> 0, act |-> 0]
    /\ engPc' = "rd_addr"
    /\ UNCHANGED <<sleeping, phase, scanAlloc, si, sj, cur, harvested, lastSeen, window,
                   writerVars, sockVars>>
    /\ UNCHANGED EngFrame

\* MarshalSlotJSONL: slot.Addr
MarshalAddr ==
    /\ EngRuns
    /\ engPc = "rd_addr"
    /\ mapped
    /\ rec' = [rec EXCEPT !.addr = slots[si][sj].addr]
    /\ engPc' = "rd_act"
    /\ UNCHANGED <<sleeping, phase, scanAlloc, si, sj, cur, harvested, lastSeen, window,
                   writerVars, sockVars>>
    /\ UNCHANGED EngFrame

\* MarshalSlotJSONL: slot.IsActive
MarshalIsActive ==
    /\ EngRuns
    /\ engPc = "rd_act"
    /\ mapped
    /\ rec' = [rec EXCEPT !.act = slots[si][sj].act]
    /\ engPc' = "rd_ts"
    /\ UNCHANGED <<sleeping, phase, scanAlloc, si, sj, cur, harvested, lastSeen, window,
                   writerVars, sockVars>>
    /\ UNCHANGED EngFrame

\* The serializer loading slot.Seq itself.
SeqFieldReread(observedSeq, slot) == slot.seq

\* MarshalSlotJSONL: strconv.AppendUint(buf, observedSeq, 10), the seq field of
\* the line, given the snapshot passed in and the slot.
SeqField(observedSeq, slot) == observedSeq

\* The timestamp taken from the neighbouring slot.
LineOffByOne(s, j, observedSeq) ==
    [st |-> s, sl |-> j, pid |-> rec.pid, tid |-> rec.tid, addr |-> rec.addr,
     seq |-> SeqField(observedSeq, slots[s][j]), act |-> rec.act,
     ts |-> slots[s][(j + 1) % NumSlots].ts,
     loaded |-> cur, nth |-> harvested,
     head |-> slots[s][j].addr, seqNow |-> slots[s][j].seq]

\* The line MarshalSlotJSONL returns, once slot.Timestamp has been read.
Line(s, j, observedSeq) ==
    [st |-> s, sl |-> j, pid |-> rec.pid, tid |-> rec.tid, addr |-> rec.addr,
     seq |-> SeqField(observedSeq, slots[s][j]), act |-> rec.act,
     ts |-> slots[s][j].ts,
     \* history: Harvest's currentSeq; the records this doScan emitted
     \* before; when the copy ends, the newest publication begun on the slot
     \* and the slot's seq word
     loaded |-> cur, nth |-> harvested,
     head |-> slots[s][j].addr, seqNow |-> slots[s][j].seq]

\* The line put in front of the buffered ones.
WriteSlotFront(buf, line) == <<line>> \o buf

\* StationWriter.WriteSlot: sw.writer.Write(sw.line) on a bufio.Writer that has
\* met no error: the line is buffered.
WriteSlot(buf, line) == Append(buf, line)

\* bufio.Writer.Write once a write has failed: `if b.err != nil { return nn,
\* b.err }`, the line is not accepted. Harvest drops WriteSlot's result.
WriteSlotErr(buf, line, err) == IF err THEN buf ELSE WriteSlot(buf, line)

\* last_seen taking the value the slot's seq holds when the copy ends.
SeenAfterReread(loaded, slot) == slot.seq

\* Harvest: lastSeenSeqs[i] = currentSeq, the value loaded before the copy.
SeenAfter(loaded, slot) == loaded

\* MarshalSlotJSONL: slot.Timestamp; then WriteSlot's buffered write and, back
\* in Harvest, lastSeenSeqs[i] = currentSeq; harvestedCount++.
MarshalTimestamp ==
    /\ EngRuns
    /\ engPc = "rd_ts"
    /\ mapped
    /\ wbuf' = WriteSlotErr(wbuf, Line(si, sj, cur), werr)
    /\ lastSeen' = [lastSeen EXCEPT ![si][sj] = SeenAfter(cur, slots[si][sj])]
    /\ rec' = EmptyRec
    /\ Advance(harvested + 1)
    /\ UNCHANGED <<sleeping, phase, scanAlloc, cur, window, logFile, writerOpen, werr,
                   diskFail, sockVars>>
    /\ UNCHANGED EngFrame

\* bufio.Writer.Flush: nothing to do after an error or with an empty buffer;
\* otherwise one Write on the file. When that fails (the file is closed, the
\* disk refuses) the records it did write leave the buffer, the rest stay and
\* the error is kept: every later Write and Flush returns it.
WriterFlush ==
    IF werr \/ wbuf = <<>>
      THEN UNCHANGED <<logFile, wbuf, werr>>
      ELSE IF writerOpen /\ ~diskFail
             THEN /\ logFile' = logFile \o wbuf
                  /\ wbuf' = <<>>
                  /\ werr' = FALSE
             ELSE /\ werr' = TRUE
                  /\ \E k \in 0..(Len(wbuf) - 1) :
                        /\ logFile' = IF writerOpen THEN logFile \o SubSeq(wbuf, 1, k)
                                                   ELSE logFile
                        /\ wbuf' = IF writerOpen THEN SubSeq(wbuf, k + 1, Len(wbuf))
                                                ELSE wbuf

\* hotHarvestLoop: e.writer.Flush(), the error dropped.
Flush ==
    /\ EngRuns
    /\ engPc = "flush"
    /\ WriterFlush
    /\ engPc' = "arm"
    /\ UNCHANGED <<sleeping, scanVars, writerOpen, diskFail, sockVars>>
    /\ UNCHANGED EngFrame

\* Blocking without the double-check.
AfterArmBlock == "read"

\* hotHarvestLoop: once tracer_sleeping is 1, `if e.doScan() > 0`.
AfterArm == "scan"

\* hotHarvestLoop: atomic.StoreUint32(&e.header.TracerSleeping, 1)
ArmSleep ==
    /\ EngRuns
    /\ engPc = "arm"
    /\ mapped
    /\ sleeping' = 1
    /\ phase' = "recheck"
    /\ engPc' = AfterArm
    /\ UNCHANGED <<scanAlloc, si, sj, cur, rec, harvested, lastSeen, window, writerVars,
                   sockVars>>
    /\ UNCHANGED EngFrame

\* hotHarvestLoop: the double-check harvested something: store 0 and `continue`.
ClearSleep ==
    /\ EngRuns
    /\ engPc = "clear"
    /\ mapped
    /\ sleeping' = 0
    /\ phase' = "first"
    /\ engPc' = "scan"
    /\ UNCHANGED <<scanAlloc, si, sj, cur, rec, harvested, lastSeen, window, writerVars,
                   sockVars>>
    /\ UNCHANGED EngFrame

\* hotHarvestLoop: n, err := conn.Read(wakeBuf). The read blocks while the
\* socket is empty and the peer is connected.
ConnRead ==
    /\ EngRuns
    /\ engPc = "read"
    /\ sockBytes > 0 \/ peerClosed
    /\ IF sockBytes > 0
         THEN /\ sockBytes' = sockBytes - Min(sockBytes, WakeBufSize)
              /\ engPc' = "woken"
         ELSE /\ sockBytes' = sockBytes
              /\ engPc' = "eof"
    /\ UNCHANGED <<sleeping, scanVars, writerVars, listener, backlog, conn, peerClosed,
                   acceptErrs, atDisconnect>>
    /\ UNCHANGED EngFrame

\* hotHarvestLoop: after a wake byte, store 0 and loop.
WakeClear ==
    /\ EngRuns
    /\ engPc = "woken"
    /\ mapped
    /\ sleeping' = 0
    /\ phase' = "first"
    /\ engPc' = "scan"
    /\ UNCHANGED <<scanAlloc, si, sj, cur, rec, harvested, lastSeen, window, writerVars,
                   sockVars>>
    /\ UNCHANGED EngFrame

\* The loop returning with the flag as the arming store left it.
FlagKept(f) == f

\* hotHarvestLoop: `if err != nil || n == 0 { atomic.StoreUint32(
\* &e.header.TracerSleeping, 0); return }`, the flag's value at the return.
FlagAtReturn(f) == 0

\* hotHarvestLoop: err != nil || n == 0: store 0 and return.
EofClear ==
    /\ EngRuns
    /\ engPc = "eof"
    /\ mapped
    /\ sleeping' = FlagAtReturn(sleeping)
    /\ phase' = "first"
    /\ engPc' = "conn_close"
    /\ UNCHANGED <<scanAlloc, si, sj, cur, rec, harvested, lastSeen, window, writerVars,
                   sockVars>>
    /\ UNCHANGED EngFrame

\* Run: conn.Close() and back to Accept.
ConnClose ==
    /\ EngRuns
    /\ engPc = "conn_close"
    /\ conn' = "none"
    /\ sockBytes' = 0
    /\ peerClosed' = FALSE
    /\ engPc' = "accept"
    /\ atDisconnect' =
          [pend |-> {[st |-> x[1], sl |-> x[2], seq |-> slots[x[1]][x[2]].seq] :
                        x \in {y \in (DOMAIN slots) \X SlotIdx :
                                  slots[y[1]][y[2]].seq > lastSeen[y[1]][y[2]]}},
           len |-> Len(logFile) + Len(wbuf)]
    /\ UNCHANGED <<sleeping, scanVars, writerVars, listener, backlog, acceptErrs>>
    /\ UNCHANGED EngFrame

TouchesRegion ==
    engPc \in {"scan", "slot", "rd_tid", "rd_addr", "rd_act", "rd_ts", "arm", "clear",
               "woken", "eof"}

\* A load or store on the region after syscall.Munmap: the goroutine faults.
RegionFault ==
    /\ EngRuns
    /\ TouchesRegion
    /\ ~mapped
    /\ engPc' = "fault"
    /\ UNCHANGED <<sleeping, scanVars, writerVars, sockVars>>
    /\ UNCHANGED EngFrame

\* ------------------------------------------- shutdown (main.go, Close)
MainFrame == <<maxStations, allocated, sleeping, slots, stHdr, engPc, scanVars,
               conn, sockBytes, peerClosed, acceptErrs, atDisconnect, coroVars, probeVars, bootVars>>

\* Close tests each field against nil and never sets one to nil: every call
\* performs every step. The operations that find their resource released:
Stale(ops, released, op) == IF released THEN ops \cup {op} ELSE ops

\* Close: e.writer.Close(), that is sw.Flush() and sw.file.Close(). Called by
\* the signal goroutine, and by the deferred call when main returns.
CloseWriter ==
    /\ mainPc \in {"running", "closed"}
    /\ closeCalls < MaxCloseCalls
    /\ closeCalls' = closeCalls + 1
    /\ WriterFlush
    /\ writerOpen' = FALSE
    /\ diskFail' = diskFail
    /\ staleOps' = Stale(staleOps, ~writerOpen, "writer.Close")
    /\ mainPc' = "close_listener"
    /\ UNCHANGED <<mapped, listener, backlog, shmFile>>
    /\ UNCHANGED MainFrame

\* Close: e.listener.Close()
CloseListener ==
    /\ mainPc = "close_listener"
    /\ listener' = "closed"
    /\ backlog' = 0
    /\ staleOps' = Stale(staleOps, listener = "closed", "listener.Close")
    /\ mainPc' = "munmap"
    /\ UNCHANGED <<mapped, writerVars, closeCalls, shmFile>>
    /\ UNCHANGED MainFrame

\* Close: syscall.Munmap(e.mmapData)
Munmap ==
    /\ mainPc = "munmap"
    /\ mapped' = FALSE
    /\ staleOps' = Stale(staleOps, ~mapped, "Munmap")
    /\ mainPc' = "close_file"
    /\ UNCHANGED <<listener, backlog, writerVars, closeCalls, shmFile>>
    /\ UNCHANGED MainFrame

\* Close: e.shmFile.Close(), and Close returns.
CloseFile ==
    /\ mainPc = "close_file"
    /\ shmFile' = "closed"
    /\ staleOps' = Stale(staleOps, shmFile = "closed", "shmFile.Close")
    /\ mainPc' = "closed"
    /\ UNCHANGED <<mapped, listener, backlog, writerVars, closeCalls>>
    /\ UNCHANGED MainFrame

\* os.Exit(0) after Close in the signal goroutine, or the return from main.
Exit ==
    /\ mainPc = "closed"
    /\ mainPc' = "exited"
    /\ UNCHANGED <<mapped, listener, backlog, writerVars, closeCalls, staleOps, shmFile>>
    /\ UNCHANGED MainFrame

\* ------------------------------------------------------- the log's disk
\* Writes to the log file start to fail (the disk is full, an I/O error).
DiskFails ==
    /\ ~diskFail
    /\ diskFail' = TRUE
    /\ UNCHANGED <<regionVars, engPc, scanVars, wbuf, logFile, writerOpen, werr,
                   sockVars, coroVars, probeVars, mainVars>>

\* The condition clears.
DiskRecovers ==
    /\ diskFail
    /\ diskFail' = FALSE
    /\ UNCHANGED <<regionVars, engPc, scanVars, wbuf, logFile, writerOpen, werr,
                   sockVars, coroVars, probeVars, mainVars>>

\* ----------------------------------------------------------- specifications
ProbeStep ==
    \/ InitTracer
    \/ ProbeExit
    \/ \E c \in Coros :
         \/ PromiseMixinCtor(c)
         \/ PromiseMixinDtor(c)
         \/ write_trace(c)
         \/ WtStoreTid(c)
         \/ WtStoreTimestamp(c)
         \/ WtStoreIsActive(c)
         \/ WtStoreSeq(c)
         \/ WtLoadSleeping(c)
         \/ trigger_uds_wakeup(c)

RelaxedStep == \E c \in Coros : WtLoadSleepingEarly(c) \/ WtStoreSeqLate(c)

EngineRest ==
    \/ Accept
    \/ HarvestLoadSeq
    \/ MarshalTid
    \/ MarshalAddr
    \/ MarshalIsActive
    \/ MarshalTimestamp
    \/ Flush
    \/ ArmSleep
    \/ ClearSleep
    \/ ConnRead
    \/ WakeClear
    \/ EofClear
    \/ ConnClose

EngineStep == doScan \/ EngineRest
EngineStepConst == doScanConst \/ EngineRest

CloseStep ==
    \/ CloseWriter
    \/ CloseListener
    \/ Munmap
    \/ CloseFile
    \/ Exit
    \/ AcceptError
    \/ RegionFault

\* One station, one coroutine: from a fresh start, or with a full ring published.
Init ==
    \/ InitCfg(1, 1, MaxEvents)
    \/ InitRing(1, RingEvents)

\* Harvesting. The probe's relaxed load may pass its release store.
Next == ProbeStep \/ RelaxedStep \/ EngineStep
Spec == Init /\ [][Next]_vars

\* Harvesting with the probe's loads and stores taking effect in program order.
NextSC == ProbeStep \/ EngineStep
SpecSC == Init /\ [][NextSC]_vars

\* Several coroutines contending for the stations.
InitMulti == \E n \in 1..MaxN : InitCfg(n, MaxCoros, MaxEvents)
SpecMulti == InitMulti /\ [][Next]_vars

\* Harvesting by the engine.go that clamps to the constant MaxStations, the
\* coroutines outnumbering the stations.
InitConst == InitCfg(1, MaxCoros, MaxEvents)
NextConst == ProbeStep \/ RelaxedStep \/ EngineStepConst \/ IndexPanic
SpecConst == InitConst /\ [][NextConst]_vars

\* Harvesting and shutdown.
InitShutdown == InitCfg(1, 1, MaxEvents)
NextShutdown == ProbeStep \/ RelaxedStep \/ EngineStep \/ CloseStep
SpecShutdown == InitShutdown /\ [][NextShutdown]_vars

\* Bootstrap, then harvesting.
BootStep ==
    \/ RemoveShm
    \/ OpenShm
    \/ Truncate
    \/ Mmap
    \/ InitHeader
    \/ Listen
    \/ NewStationWriter
    \/ MainStart
    \/ MainFatal

InitBootAny == \E stale \in BOOLEAN : InitBoot(1, stale)
NextBoot == BootStep \/ ProbeStep \/ RelaxedStep \/ EngineStep
SpecBoot == InitBootAny /\ [][NextBoot]_vars

\* Harvesting with Accept failing now and then.
InitAccept == InitCfg(1, 1, MaxEvents)
NextAccept == ProbeStep \/ RelaxedStep \/ EngineStep \/ AcceptError
SpecAccept == InitAccept /\ [][NextAccept]_vars

\* Harvesting with the traced process ending and another one connecting.
InitReconnect == InitCfg(MaxN, 1, MaxEvents)
NextReconnect == ProbeStep \/ RelaxedStep \/ EngineStep \/ ProbeRelaunch
SpecReconnect == InitReconnect /\ [][NextReconnect]_vars

\* Harvesting with the probe's accesses in program order and its wake writes
\* failing now and then.
WakeFailStep == \E c \in Coros : WakeWriteFails(c)
NextWakeFail == ProbeStep \/ EngineStep \/ WakeFailStep
SpecWakeFail == Init /\ [][NextWakeFail]_vars

\* The addresses of the slots.
InitLayout == InitCfg(1, 1, MaxEvents)
NextLayout == LayoutSlot
SpecLayout == InitLayout /\ [][NextLayout]_vars

\* The lines of the log.
InitFormat == InitCfg(1, 1, MaxEvents)
NextFormat == FormatLine
SpecFormat == InitFormat /\ [][NextFormat]_vars

\* The analyzer run on a trace file.
InitDive == InitCfg(1, 1, MaxEvents)
NextDive == DiveScanLine \/ DiveHeuristics
SpecDive == InitDive /\ [][NextDive]_vars

\* Harvesting while one coroutine goes round the ring, its accesses in
\* program order: from a fresh start, or with the events 1..NumSlots published
\* and the rest of the WrapEvents still to trace.
InitWrap ==
    \/ InitCfg(1, 1, MaxEvents)
    \/ InitRing(1, WrapEvents - NumSlots)
SpecWrap == InitWrap /\ [][NextSC]_vars

\* Harvesting with reconnects and a single station: the coroutine of the
\* process that connects second finds no station left.
InitFootprint == InitCfg(1, 1, FootprintEvents)
SpecFootprint == InitFootprint /\ [][NextReconnect]_vars

\* Harvesting to a log whose disk fails and recovers.
DiskStep == DiskFails \/ DiskRecovers
InitDisk == InitCfg(1, 1, MaxEvents)
NextDisk == ProbeStep \/ RelaxedStep \/ EngineStep \/ DiskStep
SpecDisk == InitDisk /\ [][NextDisk]_vars

\* Harvesting with the probe's connect failing or not.
InitNoSocket == InitCfg(1, 1, MaxEvents)
NextNoSocket == Next \/ InitTracerNoSocket
SpecNoSocket == InitNoSocket /\ [][NextNoSocket]_vars

\* Harvesting from a fresh connection and from one with queued wake bytes.
InitCoalesce == InitCfg(1, 1, MaxEvents) \/ InitQueued(1, RingEvents)
SpecCoalesce == InitCoalesce /\ [][Next]_vars

\* Harvesting late in a long run, allocated_count at the top of its range.
InitCounter == InitTop(1, MaxEvents)
SpecCounter == InitCounter /\ [][Next]_vars

\* ------------------------------------------------------------------ claims
\* The log in emission order: the records flushed to the file, then those
\* still buffered.
Log == logFile \o wbuf

LogIdx == 1..Len(Log)

\* The records emitted for slot j of station s, in log order.
RecordsOf(s, j) == SelectSeq(Log, LAMBDA r : r.st = s /\ r.sl = j)

\* Slot j of station s holds a published seq the engine has not emitted.
Pending(s, j) == slots[s][j].seq > lastSeen[s][j]

\* Every coroutine is outside write_trace: each publication made so far has
\* completed its protocol (seq store, flag load, wake byte if it read 1).
ProbeQuiet == \A c \in Coros : CoroQuiet(c)

\* The engine sits in conn.Read with nothing to read and the peer connected.
BlockedInRead == engPc = "read" /\ sockBytes = 0 /\ ~peerClosed

\* The engine sits in Accept with no connection to accept.
BlockedInAccept == engPc = "accept" /\ listener = "open" /\ backlog = 0

\* C1: no lost wakeup. While the probe connection is held and every publication
\* has completed its protocol, the engine is never blocked in the socket read
\* with a published seq it has not emitted: nothing is left to wake it, so it
\* would stay blocked while some slot has seq > last_seen.
C1_NoLostWakeup ==
    (BlockedInRead /\ ProbeQuiet /\ udsFd = "open") =>
        \A s \in Stations, j \in SlotIdx : ~Pending(s, j)

\* C2: the double-check. A publication that lands after a scan that found
\* nothing and before the re-scan starts is emitted by the re-scan, and the
\* engine clears tracer_sleeping instead of entering the blocking read.
C2_DoubleCheck ==
    /\ engPc \in {"read", "woken", "eof"} => window = {}
    /\ engPc = "clear" =>
         \A w \in window :
            /\ lastSeen[w.st][w.sl] >= w.seq
            /\ \E i \in LogIdx : Log[i].st = w.st /\ Log[i].sl = w.sl /\ Log[i].seq >= w.seq

\* C2 happens: the probe published in the window, read the flag as 0 and sent
\* no wake byte; the re-scan has emitted the record and the engine is about to
\* store 0.
C2_Witness ==
    /\ engPc = "clear"
    /\ sockBytes = 0
    /\ \E c \in Coros :
         /\ cpc[c] = "idle"
         /\ flagSeen[c] = 0
         /\ [st |-> myStation[c], sl |-> SlotOf(curSeq[c]), seq |-> curSeq[c]] \in window

\* C3: per-slot monotonicity. The seq values of the records emitted for one
\* (station, slot) are strictly increasing in log order.
C3_Monotonic ==
    \A a, b \in LogIdx :
        (a < b /\ Log[a].st = Log[b].st /\ Log[a].sl = Log[b].sl) => Log[a].seq < Log[b].seq

\* C3 happens: some slot has two records in the log.
C3_Witness ==
    \E a, b \in LogIdx : a < b /\ Log[a].st = Log[b].st /\ Log[a].sl = Log[b].sl

\* C4: snapshot fidelity. The seq of every record is the value Harvest loaded
\* in the scan step that produced it.
C4_SnapshotFidelity == \A i \in LogIdx : Log[i].seq = Log[i].loaded

\* C4 happens: a seq store landed on the slot between Harvest's load and the
\* end of the copy, and the record carries the loaded value.
C4_Witness == \E i \in LogIdx : Log[i].seqNow > Log[i].loaded /\ Log[i].seq = Log[i].loaded

\* The record holds the field values of the publication whose seq it reports.
Consistent(r) == r.tid = r.seq /\ r.addr = r.seq /\ r.act = r.seq /\ r.ts = r.seq

Publications(s, j) ==
    {k \in 1..(NumSlots + MaxEvents + RingEvents + WrapEvents + FootprintEvents) :
        /\ SlotOf(k) = j
        /\ \E c \in Coros : myStation[c] = s /\ k <= curSeq[c]
        /\ k <= slots[s][j].seq}

\* C6: the final value of every slot reaches the log. Once the probe has stopped
\* publishing and the engine has come to rest, every slot ever written has its
\* last seq as the last record of that slot, and the slot has at least one and
\* at most as many records as publications.
C6_FinalValue ==
    (ProbeQuiet /\ (BlockedInRead \/ (BlockedInAccept /\ probePc = "exited"))) =>
        \A s \in Stations, j \in SlotIdx :
            slots[s][j].seq > 0 =>
                LET rs == RecordsOf(s, j)
                IN /\ Len(rs) >= 1
                   /\ Len(rs) <= Cardinality(Publications(s, j))
                   /\ rs[Len(rs)].seq = slots[s][j].seq

Constructed == {c \in Coros : cpc[c] \notin {"absent", "new"}}

Owners(s) == {c \in Coros : myStation[c] = s}

\* C7: station reservation. No two coroutines obtain the same index, exactly
\* min(P, N) of the P coroutines created so far hold a station (those with the
\* indices below N), and a coroutine whose index is N or more holds no station,
\* never enters the publication or the wake, and leaves every slot alone.
C7_Reservation ==
    /\ \A c, d \in Constructed : c # d => ctorIdx[c] # ctorIdx[d]
    /\ \A c \in Constructed :
          myStation[c] = (IF ctorIdx[c] < maxStations THEN ctorIdx[c] ELSE NoStation)
    /\ {myStation[c] : c \in Constructed} \ {NoStation}
          = 0..(Min(Cardinality(Constructed), maxStations) - 1)
    /\ Cardinality({c \in Constructed : myStation[c] # NoStation})
          = Min(Cardinality(Constructed), maxStations)
    /\ \A c \in Constructed :
          myStation[c] = NoStation => CoroQuiet(c) /\ curSeq[c] = 0
    /\ \A s \in Stations, j \in SlotIdx :
          /\ Cardinality(Owners(s)) <= 1
          /\ \A c \in Owners(s) : slots[s][j].addr <= curSeq[c]
          /\ Owners(s) = {} => slots[s][j] = EmptyEpoch

\* C7 happens: more coroutines than stations have reserved, and one left
\* without a station has called write_trace.
C7_Witness ==
    /\ Cardinality(Constructed) > maxStations
    /\ evLeft < MaxEvents
    /\ \A c \in Coros : curSeq[c] = 0

ScanPcs == {"slot", "rd_tid", "rd_addr", "rd_act", "rd_ts"}

\* C8: clamping. Inside a scan pass the station index is below the count loaded
\* at the start of the pass, and that count is at most the capacity the engine
\* was started with and at most allocated_count.
C8_Clamped ==
    engPc \in ScanPcs =>
        /\ si < scanAlloc
        /\ scanAlloc <= maxStations
        /\ scanAlloc <= allocated

Before(a, b) == a.st < b.st \/ (a.st = b.st /\ a.sl < b.sl)

\* C9: emission order. The log is a sequence of scan passes in the order they
\* ran (a pass starts at a record that is the first of its doScan), and inside
\* a pass the records are in station-ascending, then slot-ascending order.
C9_EmissionOrder ==
    /\ Len(Log) > 0 => Log[1].nth = 0
    /\ \A i \in LogIdx :
          i < Len(Log) =>
             \/ Log[i + 1].nth = 0
             \/ Log[i + 1].nth = Log[i].nth + 1 /\ Before(Log[i], Log[i + 1])

\* C9 happens: one pass has emitted records of two stations, after an earlier
\* pass or not.
C9_Witness ==
    \E i \in LogIdx :
        i < Len(Log) /\ Log[i + 1].nth = Log[i].nth + 1 /\ Log[i].st < Log[i + 1].st

\* C10: shutdown stops the Run loop. When Accept fails on the closed listener
\* the loop ends instead of going back to Accept.
C10_RunStops ==
    [][(listener = "closed" /\ acceptErrs' = acceptErrs + 1) => engPc' = "stopped"]_vars

\* C11: shutdown does not cut a scan. The harvester never loads or stores on the
\* region after Close has unmapped it (the access would fault), and no record
\* is handed to the serializer after Close has closed it (the records buffered
\* while the file is closed were written after the close, which flushed).
C11_ScanNotCut ==
    /\ engPc # "fault"
    /\ ~writerOpen => wbuf = <<>>

\* C12: shutdown is idempotent. A second call of Close performs no flush, close
\* or unmap on a resource the first call released.
C12_Idempotent == staleOps = {}

\* C13: bootstrap failure leaves nothing behind. When NewTracerEngine returns an
\* error, the region is not mapped, the shared file is not open and the
\* listener is not bound.
C13_NothingLeftBehind ==
    mainPc = "returned_err" => (~mapped /\ shmFile # "open" /\ listener # "open")

\* C14: log write errors are transient-tolerant. While writes to the log file
\* succeed, whatever failed before, a record handed to the serializer is
\* buffered and a flush moves every buffered record to the file.
C14_WriteErrorsTolerated ==
    [][(~diskFail /\ ~diskFail') =>
          /\ (engPc = "rd_ts" /\ engPc' # "rd_ts") => Len(wbuf') = Len(wbuf) + 1
          /\ (engPc = "flush" /\ engPc' = "arm") =>
                (logFile' = logFile \o wbuf /\ wbuf' = <<>>)]_vars

\* C15: accept errors are not fatal. A step in which Accept returns an error
\* leaves the engine disconnected and back at Accept, with tracer_sleeping = 0
\* and last_seen unchanged.
C15_AcceptErrorsNotFatal ==
    [][acceptErrs' # acceptErrs =>
          /\ engPc' = "accept"
          /\ conn' = "none"
          /\ sleeping' = 0
          /\ lastSeen' = lastSeen]_vars

\* C15 happens: after an Accept error a connection has been accepted and the
\* engine is Running, inside a scan pass of it.
C15_Witness == acceptErrs > 0 /\ conn = "open" /\ engPc \in ScanPcs

\* A pass of the present connection has completed.
PassDone == engPc \in {"flush", "arm", "clear", "read", "woken", "eof"}

\* C16: reconnect continuity. Once a scan pass of the next connection has
\* completed, every slot whose seq exceeded last_seen when the engine closed
\* the previous connection has been emitted after the reconnect, and no slot
\* has two records with the same seq, before and after the disconnect.
C16_ReconnectContinuity ==
    /\ PassDone =>
          \A p \in atDisconnect.pend :
              /\ lastSeen[p.st][p.sl] >= p.seq
              /\ \E i \in LogIdx :
                    /\ i > atDisconnect.len
                    /\ Log[i].st = p.st /\ Log[i].sl = p.sl /\ Log[i].seq >= p.seq
    /\ \A a, b \in LogIdx :
          (a # b /\ Log[a].st = Log[b].st /\ Log[a].sl = Log[b].sl) => Log[a].seq # Log[b].seq

\* C16 happens: the previous connection ended with a slot not yet emitted and
\* with records in the log, and a pass of the next connection has completed.
C16_Witness ==
    /\ PassDone
    /\ conn = "open"
    /\ atDisconnect.pend # {}
    /\ atDisconnect.len > 0

\* C17: a failed wake write loses nothing. When the probe has stopped
\* publishing and the engine has come to rest (blocked in the socket read, or
\* back at Accept after the probe has gone), no published seq is left
\* unemitted, whether the wake write of its publication succeeded or not.
C17_FailedWakeLosesNothing ==
    (ProbeQuiet /\ (BlockedInRead \/ (BlockedInAccept /\ probePc = "exited"))) =>
        \A s \in Stations, j \in SlotIdx : slots[s][j].seq <= lastSeen[s][j]

\* The header as NewTracerEngine writes it.
HeaderInitialised ==
    /\ magicNum = MagicNum
    /\ version = 1
    /\ maxStations = stationCount
    /\ allocated = 0
    /\ sleeping = 0

\* C18: bootstrap postcondition. When NewTracerEngine has returned an engine and
\* no probe has attached, the shared file has size 1024 + N*1024, the header
\* holds the magic, version 1, max_stations = N, allocated_count = 0 and
\* tracer_sleeping = 0, every slot's seq and every last_seen entry is 0, also
\* when a file of an earlier run was at the path; and the header is
\* initialised before the listening socket exists.
C18_BootPostcondition ==
    /\ mainPc = "returned_ok" =>
          /\ shmSize = 1024 + stationCount * 1024
          /\ HeaderInitialised
          /\ \A s \in DOMAIN slots, j \in SlotIdx :
                slots[s][j].seq = 0 /\ lastSeen[s][j] = 0
    /\ (listener = "open" /\ probePc = "unlaunched") => HeaderInitialised

\* The documented offsets of the header and of an Epoch.
HeaderOffsets(h, magic, ver, maxSt, alloc, sleep) ==
    /\ OffsetOf(h, magic) = 0
    /\ OffsetOf(h, ver) = 8
    /\ OffsetOf(h, maxSt) = 12
    /\ OffsetOf(h, alloc) = 16
    /\ OffsetOf(h, sleep) = 20

EpochOffsets(e, ts, tid, addr, seq, act) ==
    /\ OffsetOf(e, ts) = 0
    /\ OffsetOf(e, tid) = 8
    /\ OffsetOf(e, addr) = 16
    /\ OffsetOf(e, seq) = 24
    /\ OffsetOf(e, act) = 63

\* The part of the layout that fixes where a slot and its seq are.
SlotLayoutAgrees ==
    /\ StructSize(GoStationData, 1) = 1024
    /\ StructSize(CppStationData, 1024) = 1024
    /\ StructSize(GoEpoch, 1) = 64
    /\ StructSize(CppEpoch, 64) = 64
    /\ HeaderOffsets(GoGlobalHeader, "MagicNum", "Version", "MaxStations",
                     "AllocatedCount", "TracerSleeping")
    /\ HeaderOffsets(CppGlobalHeader, "magic_number", "version", "max_stations",
                     "allocated_count", "tracer_sleeping")
    /\ EpochOffsets(GoEpoch, "Timestamp", "TID", "Addr", "Seq", "IsActive")
    /\ EpochOffsets(CppEpoch, "timestamp", "tid", "addr", "seq", "is_active")
    /\ layout.i >= 0 =>
          /\ layout.engine = 1024 * (layout.i + 1) + 64 + 64 * layout.j
          /\ layout.probe = layout.engine

\* C19: layout conformance. On the engine side and on the probe side
\* GlobalHeader is 1024 bytes, StationData 1024 bytes and Epoch 64 bytes with
\* the documented field offsets, and both sides compute the byte offset
\* 1024*(i+1) + 64 + 64*j for slot j of station i, seq at 0x18 inside it.
C19_LayoutConformance ==
    /\ StructSize(GoGlobalHeader, 1) = 1024
    /\ StructSize(CppGlobalHeader, 1024) = 1024
    /\ SlotLayoutAgrees

\* The number a string of decimal digits denotes, -1 when it is none.
RECURSIVE DecValue(_)
DecValue(cs) ==
    IF cs = <<>> THEN 0
    ELSE LET ds == {d \in 0..9 : DecChars[d + 1] = cs[Len(cs)]}
             hi == DecValue(SubSeq(cs, 1, Len(cs) - 1))
         IN IF ds = {} \/ hi < 0 THEN -1 ELSE 10 * hi + (CHOOSE d \in ds : TRUE)

\* cs is "0x" and the 16 lowercase hex digits of v.
IsAddrOf(cs, v) ==
    /\ Len(cs) = 18
    /\ cs[1] = "0" /\ cs[2] = "x"
    /\ \A k \in 1..16 :
          \E d \in 0..15 :
              /\ cs[2 + k] = <<"0", "1", "2", "3", "4", "5", "6", "7", "8", "9",
                               "a", "b", "c", "d", "e", "f">>[d + 1]
              /\ d = (v[((k - 1) \div 4) + 1] \div (16 ^ (3 - ((k - 1) % 4)))) % 16

\* out is one line of the documented form for the values in.
IsRecordLine(out, in) ==
    \E a, b, c, d \in 1..MaxDigits, t \in {LitTrue, LitFalse} :
        LET p1 == Len(KeyProbeId)
            p2 == p1 + a + Len(KeyTid)
            p3 == p2 + b + Len(KeyAddr)
            p4 == p3 + 18 + Len(KeySeq)
            p5 == p4 + c + Len(KeyIsActive)
            p6 == p5 + Len(t) + Len(KeyTs)
            p7 == p6 + d + Len(LineEnd)
        IN /\ Len(out) = p7
           /\ SubSeq(out, 1, p1) = KeyProbeId
           /\ DecValue(SubSeq(out, p1 + 1, p1 + a)) = in.pid
           /\ SubSeq(out, p1 + a + 1, p2) = KeyTid
           /\ DecValue(SubSeq(out, p2 + 1, p2 + b)) = in.tid
           /\ SubSeq(out, p2 + b + 1, p3) = KeyAddr
           /\ IsAddrOf(SubSeq(out, p3 + 1, p3 + 18), in.addr)
           /\ SubSeq(out, p3 + 19, p4) = KeySeq
           /\ DecValue(SubSeq(out, p4 + 1, p4 + c)) = in.seq
           /\ SubSeq(out, p4 + c + 1, p5) = KeyIsActive
           /\ SubSeq(out, p5 + 1, p5 + Len(t)) = t
           /\ t = (IF in.act THEN LitTrue ELSE LitFalse)
           /\ SubSeq(out, p5 + Len(t) + 1, p6) = KeyTs
           /\ DecValue(SubSeq(out, p6 + 1, p6 + d)) = in.ts
           /\ SubSeq(out, p6 + d + 1, p7) = LineEnd

\* C20: record format. What the serializer returns is exactly one line ended
\* by LF, with probe_id, tid, addr, seq, is_active and ts in that order, addr
\* being "0x" and 16 lowercase hex digits (18 characters, leading zeros kept)
\* and is_active the literal true or false.
C20_RecordFormat ==
    jsonl # NoLine =>
        /\ IsRecordLine(jsonl.out, jsonl.in)
        /\ \A k \in 1..Len(jsonl.out) : jsonl.out[k] = "\n" <=> k = Len(jsonl.out)

\* C20 happens: a line for an address with leading zeros and a zero word in
\* the middle, is_active false.
C20_Witness ==
    /\ jsonl # NoLine
    /\ jsonl.in.addr[1] = 0 /\ jsonl.in.addr[4] # 0
    /\ ~jsonl.in.act

\* The events of probe_id p in the trace the analyzer read.
DiveEventsOf(p) == {dive.trace[i] : i \in {k \in 1..Len(dive.trace) : dive.trace[k].pid = p}}

\* The last state transition of p: its event with the highest seq.
DiveLatest(p) == CHOOSE ev \in DiveEventsOf(p) : \A o \in DiveEventsOf(p) : o.seq <= ev.seq

\* C21: lost-wakeup report. The analyzer lists a probe_id exactly when the event
\* with the highest seq of that coroutine is a suspend (is_active = false), in
\* whatever order the records are in the log; a coroutine whose latest event
\* is a resume is never listed.
C21_LostWakeupReport ==
    dive.pc = "done" =>
        dive.LostWakeups = {p \in Coros : DiveEventsOf(p) # {} /\ ~DiveLatest(p).act}

\* Coroutine c has completed the flag load of its latest publication.
FlagLoaded(c) == myStation[c] # NoStation /\ curSeq[c] > 0 /\ cpc[c] \in {"idle", "wake", "dead"}

\* C22: store-then-load dichotomy. When the engine has armed tracer_sleeping,
\* re-scanned without progress and entered the socket read, then for every
\* publication whose flag load the probe has completed, the re-scan observed
\* the published seq (last_seen has reached it) or the probe's load of
\* tracer_sleeping observed 1.
C22_StoreThenLoad ==
    engPc = "read" =>
        \A c \in Coros :
            FlagLoaded(c) =>
                \/ lastSeen[myStation[c]][SlotOf(curSeq[c])] >= curSeq[c]
                \/ flagSeen[c] = 1

\* The Run goroutine is inside a doScan or about to start one.
InScan == engPc \in ScanPcs \cup {"scan"}

\* C23: sleep-arm sequence. A scan of Running that returns zero progress is
\* followed by the flush, then the store tracer_sleeping := 1, then one
\* re-scan; the re-scan is followed by tracer_sleeping := 0 and a scan of
\* Running when it made progress and by the socket read when it made none.
\* The socket read is entered from nowhere else.
C23_SleepArmSequence ==
    [][/\ (InScan /\ phase = "first" /\ ~InScan') =>
              /\ harvested' = 0
              /\ engPc' = "flush"
       /\ (InScan /\ phase = "first" /\ engPc # "scan" /\ engPc' = "scan") => harvested' > 0
       /\ (engPc = "flush" /\ engPc' # "flush") =>
              /\ engPc' = "arm"
              /\ sleeping' = sleeping
       /\ (engPc = "arm" /\ engPc' # "arm") =>
              /\ sleeping' = 1
              /\ engPc' = "scan" /\ phase' = "recheck"
       /\ (InScan /\ phase = "recheck" /\ ~InScan') =>
              /\ sleeping' = 1
              /\ \/ harvested' > 0 /\ engPc' = "clear"
                 \/ harvested' = 0 /\ engPc' = "read"
       /\ (InScan /\ phase = "recheck") => (InScan' => phase' = "recheck")
       /\ (engPc = "clear" /\ engPc' # "clear") =>
              /\ sleeping' = 0
              /\ engPc' = "scan" /\ phase' = "first"
       /\ (engPc # "read" /\ engPc' = "read") =>
              (InScan /\ phase = "recheck" /\ sleeping = 1)]_vars

\* C23 happens: the engine has stored 1, re-scanned a station that holds
\* records already emitted and entered the socket read.
C23_Witness == engPc = "read" /\ sleeping = 1 /\ logFile # <<>> /\ sockBytes = 0

\* C24: flushed before blocking. When the engine is about to store
\* tracer_sleeping := 1 the serializer has just been flushed, and whenever the
\* engine is blocked in the socket read or in Accept the write buffer is empty:
\* every record emitted so far is in the log file.
C24_FlushedBeforeBlocking ==
    (engPc = "arm" \/ BlockedInRead \/ BlockedInAccept) => wbuf = <<>>

\* The step stores the seq of slot j of station s.
SeqStored(s, j) == slots'[s][j].seq # slots[s][j].seq

\* The step is coroutine c's load of tracer_sleeping.
FlagLoadStep(c) ==
    /\ cpc[c] \in {"st_seq", "ld_flag"}
    /\ cpc'[c] \in {"st_seq_late", "idle", "wake"}

\* C25: writer protocol order. A store to a slot's seq is the store of the
\* owner's current event k into slot k mod 8, made when addr, tid, timestamp
\* and is_active of that slot already hold the values of event k, and it
\* changes nothing else; the probe loads tracer_sleeping for event k only when
\* the seq of its slot holds k.
C25_WriterOrder ==
    [][/\ \A s \in DOMAIN slots, j \in SlotIdx :
             SeqStored(s, j) =>
                \E c \in Coros :
                    /\ myStation[c] = s /\ SlotOf(curSeq[c]) = j
                    /\ cpc[c] \in {"st_seq", "st_seq_late"}
                    /\ slots[s][j].addr = curSeq[c] /\ slots[s][j].tid = curSeq[c]
                    /\ slots[s][j].ts = curSeq[c] /\ slots[s][j].act = curSeq[c]
                    /\ slots' = [slots EXCEPT ![s][j].seq = curSeq[c]]
       /\ \A c \in Coros :
             FlagLoadStep(c) => slots[myStation[c]][SlotOf(curSeq[c])].seq = curSeq[c]]_vars

\* C26: ring mapping. Of the events seq = 1..10 one coroutine writes, slot 0
\* receives seq 1 and then seq 9, slot 1 receives seq 2 and then seq 10 (slot j
\* receives seq j+1 and then seq j+9); and once all are written and the engine
\* has come to rest, the last record of each slot carries the seq the slot
\* holds.
C26_RingMapping ==
    [][/\ \A s \in Stations, j \in SlotIdx :
             SeqStored(s, j) => slots'[s][j].seq \in {j + 1, j + 1 + NumSlots}
       /\ (ProbeQuiet /\ evLeft = 0 /\ BlockedInRead) =>
             \A s \in Stations, j \in SlotIdx :
                 slots[s][j].seq > 0 =>
                     /\ RecordsOf(s, j) # <<>>
                     /\ RecordsOf(s, j)[Len(RecordsOf(s, j))].seq = slots[s][j].seq]_vars

\* The index in the log of the last record emitted for slot j of station s
\* (0 when there is none).
LastIdx(s, j) ==
    LET is == {i \in LogIdx : Log[i].st = s /\ Log[i].sl = j}
    IN IF is = {} THEN 0 ELSE CHOOSE i \in is : \A k \in is : k <= i

\* The probe stored a newer seq into the slot between Harvest's load and the
\* end of the copy of the last record emitted for it.
Overwritten(s, j) == LastIdx(s, j) > 0 /\ Log[LastIdx(s, j)].seqNow > Log[LastIdx(s, j)].seq

\* The doScan under way has gone past slot j of station s, or has ended and
\* the next has not begun.
WentPast(s, j) ==
    \/ engPc \in {"scan", "clear"}
    \/ engPc \in ScanPcs /\ (s < si \/ (s = si /\ j < sj))

\* C27: overwrite catch-up. While the last record of a slot is one whose copy
\* the probe overwrote, the slot's seq exceeds last_seen, the engine is in a
\* scan or about to start one (not flushing, arming or blocked), and a doScan
\* that has gone past the slot is the very one that emitted that record: the
\* next scan of the slot emits a record for the newer seq.
C27_OverwriteCatchUp ==
    \A s \in Stations, j \in SlotIdx :
        Overwritten(s, j) =>
            /\ Pending(s, j)
            /\ InScan \/ engPc = "clear"
            /\ WentPast(s, j) => LastIdx(s, j) > Len(Log) - harvested

\* C27 happens: a record whose copy was overwritten is followed in the log by
\* a record of the same slot with the newer seq.
C27_Witness ==
    \E a, b \in LogIdx :
        /\ a < b /\ Log[a].st = Log[b].st /\ Log[a].sl = Log[b].sl
        /\ Log[a].seqNow > Log[a].seq
        /\ Log[b].seq >= Log[a].seqNow

\* C28: no phantom sequence numbers. Every record's seq is a value the owner
\* of the station stored into that slot's seq before the emission: it is not
\* 0, it is a seq of that slot (seq mod 8 is the slot index), it does not
\* exceed the owner's latest seq nor the value the slot held when the record
\* was emitted; no record belongs to a slot nobody published to.
C28_NoPhantomSeq ==
    \A i \in LogIdx :
        /\ Log[i].seq > 0
        /\ SlotOf(Log[i].seq) = Log[i].sl
        /\ Log[i].seq <= Log[i].seqNow
        /\ \E c \in Coros : myStation[c] = Log[i].st /\ Log[i].seq <= curSeq[c]

\* No slot's seq differs from its last_seen entry.
AllSeen == \A s \in Stations, j \in SlotIdx : slots[s][j].seq = lastSeen[s][j]

\* The step is one of doScan: its start, or Harvest's load and comparison.
ScanMoved == engPc \in {"scan", "slot"} /\ <<engPc, si, sj>>' # <<engPc, si, sj>>

\* C29: an idle scan is a no-op. A step of a scan pass over a region in which
\* no slot's seq differs from last_seen emits no record and adds nothing to the
\* pass's count (0 from the start of the pass), and leaves last_seen, the
\* write buffer, the log file and the shared region as they were.
C29_IdleScanNoOp ==
    [][(ScanMoved /\ AllSeen) =>
          /\ harvested' = (IF engPc = "scan" THEN 0 ELSE harvested)
          /\ engPc' \notin {"rd_tid", "rd_addr", "rd_act", "rd_ts"}
          /\ lastSeen' = lastSeen
          /\ wbuf' = wbuf /\ logFile' = logFile
          /\ regionVars' = regionVars]_vars

\* C29 happens: with events emitted earlier, two passes in a row (the scan of
\* Running and the double-check) went over the allocated stations, found no
\* seq differing from last_seen and returned 0.
C29_Witness ==
    /\ engPc = "read" /\ harvested = 0 /\ scanAlloc > 0
    /\ AllSeen
    /\ window = {}
    /\ Log # <<>>

\* The step is one of the Run goroutine.
EngineMoved == <<engPc, si, sj>>' # <<engPc, si, sj>>

\* C30: engine write footprint. A step of the Run goroutine (scan, flush, arm,
\* clear, read, wake, disconnect, accept) leaves magic, version, max_stations,
\* allocated_count, every station header and every slot field as they were;
\* tracer_sleeping is the only word of the region it stores to.
C30_EngineFootprint ==
    [][EngineMoved =>
          /\ magicNum' = magicNum /\ version' = version
          /\ maxStations' = maxStations
          /\ allocated' = allocated
          /\ stHdr' = stHdr
          /\ slots' = slots]_vars

\* C30 happens: after a disconnect and a reconnect the engine scans a region
\* in which more stations were asked for than exist, has emitted records and
\* has stored tracer_sleeping before.
C30_Witness ==
    /\ atDisconnect # NoDisconnect
    /\ conn = "open" /\ engPc \in ScanPcs
    /\ allocated > maxStations
    /\ Log # <<>>

\* C31: allocated_count never decreases: every step of a probe or of the engine
\* leaves the 32-bit counter greater than or equal to its previous value, for
\* any number of coroutine creations.
C31_CounterMonotone == [][~U32Lt(allocated', allocated)]_vars

\* C32: tracer_sleeping is 1 only between the engine's arming store and its next
\* clearing store (the double-check scan, the blocking read and the step that
\* clears the flag); it is 0 whenever the engine is blocked in Accept and
\* whenever it executes the first scan of an iteration, and 1 whenever it is
\* blocked in the socket read.
C32_SleepFlag ==
    /\ sleeping = 1 =>
          \/ engPc \in {"read", "woken", "eof", "clear"}
          \/ InScan /\ phase = "recheck"
    /\ engPc = "accept" => sleeping = 0
    /\ InScan /\ phase = "first" => sleeping = 0
    /\ engPc = "read" => sleeping = 1

\* The engine is back in Accept after a connection on which it has slept,
\* harvested and met the end of the stream.
C32_Witness ==
    /\ engPc = "accept"
    /\ probePc = "exited"
    /\ Log # <<>>
    /\ sleeping = 0

\* C33: wake coalescing. The wake bytes the probes wrote before the engine's
\* socket read are all consumed by that one read, whatever their number: when
\* the read returns with data, no byte remains queued to cause a further wake.
C33_WakeCoalescing ==
    [][(engPc = "read" /\ engPc' = "woken") => sockBytes' = 0]_vars

\* The harvester is inside StationWriter.WriteSlot: MarshalSlotJSONL is filling
\* sw.line, the buffered write comes next.
InWriteSlot == engPc \in {"rd_tid", "rd_addr", "rd_act", "rd_ts"}

\* C34: single writer of the log buffer. At most one task is inside an operation
\* on the serializer: the Close that shutdown issues (a flush and the close of
\* the file) never runs while the harvest loop is inside a WriteSlot.
C34_SingleWriter == [][closeCalls' # closeCalls => ~InWriteSlot]_vars

\* The last line of the trace file that belongs to p.
DiveLastLine(p) ==
    dive.trace[CHOOSE i \in 1..Len(dive.trace) :
                  /\ dive.trace[i].pid = p
                  /\ \A k \in (i + 1)..Len(dive.trace) : dive.trace[k].pid # p]

\* C35: SIGBUS report. A coroutine traced by the reference probe, whose events
\* are ordinary suspends and resumes and whose last logged event is an ordinary
\* resume, is not listed under suspected SIGBUS / memory corruption.
C35_SigbusReport ==
    dive.pc = "done" => \A p \in dive.SigbusRisks : ~DiveLastLine(p).act

\* C36: harvesting without a socket. When the probe has mapped the region but
\* failed to connect, the events it publishes are still harvested: once it has
\* stopped publishing and the engine has come to rest, no published seq is left
\* unemitted.
C36_HarvestWithoutSocket ==
    (udsFd = "failed" /\ ProbeQuiet /\ (BlockedInRead \/ BlockedInAccept)) =>
        \A s \in Stations, j \in SlotIdx : slots[s][j].seq <= lastSeen[s][j]

\* last_seen of every slot is the seq of the last record emitted for the slot
\* (0 if there is none) and is at most the slot's seq word.
LastSeenMeaning ==
    \A s \in Stations, j \in SlotIdx :
        /\ lastSeen[s][j] = IF LastIdx(s, j) = 0 THEN 0 ELSE Log[LastIdx(s, j)].seq
        /\ lastSeen[s][j] <= slots[s][j].seq

\* C37: last_seen invariant. For every station s and slot i, last_seen[s][i]
\* never decreases, equals the seq of the last record emitted for (s, i) (0 if
\* none was emitted) and is less than or equal to the slot's current seq word,
\* the probe storing only increasing values into seq.
C37_LastSeen ==
    [][/\ LastSeenMeaning
       /\ LastSeenMeaning'
       /\ \A s \in Stations, j \in SlotIdx : lastSeen'[s][j] >= lastSeen[s][j]]_vars

\* The value v of a field was written by a publication to slot j whose seq is
\* at least k (a field holds the number of the publication that wrote it).
WrittenFrom(v, j, k) == v >= k /\ SlotOf(v) = j

\* C38: field provenance. In every emitted record each of tid, addr, is_active
\* and ts is a value written by a publication to the same slot whose seq is
\* greater than or equal to the emitted seq: no field is left over from a
\* publication older than the one whose seq the record reports.
C38_FieldProvenance ==
    \A i \in LogIdx :
        /\ WrittenFrom(Log[i].tid, Log[i].sl, Log[i].seq)
        /\ WrittenFrom(Log[i].addr, Log[i].sl, Log[i].seq)
        /\ WrittenFrom(Log[i].act, Log[i].sl, Log[i].seq)
        /\ WrittenFrom(Log[i].ts, Log[i].sl, Log[i].seq)

\* A record whose copy the probe overtook: it reports the seq of one
\* publication and carries a field of the next one on the slot.
C38_Witness ==
    \E i \in LogIdx :
        /\ Log[i].seq > 0
        /\ Log[i].ts > Log[i].seq
        /\ Log[i].tid = Log[i].seq

\* C39: stations are never recycled. A station handed out by the fetch-add is
\* never handed out again for the life of the region: the constructor that
\* takes a station finds its header as bootstrap left it, with no probe_id of
\* an earlier owner, also after that owner is dead and after the probe process
\* has been replaced by a new one.
C39_NeverRecycled ==
    [][\A c \in Coros :
          myStation'[c] # myStation[c] => stHdr[myStation'[c]].pid = 0]_vars

=============================================================================
